---------------------------- MODULE Spec2Model ----------------------------
(***************************************************************************)
(* PicoLume receiver firmware (picolume_receiver/picolume_receiver.ino):   *)
(* show loading, event scheduling, clock synchronisation and the frame     *)
(* pipeline of the main loop.                                              *)
(*                                                                         *)
(* Representation choices                                                  *)
(*  - uint32_t times are kept at their width, scaled: all uint32_t         *)
(*    arithmetic is done modulo Uint32Mod = 2^WordBits (32 in the source). *)
(*  - a 32-bit mask word is the set of its set bit positions (0..31), so   *)
(*    `word & (1UL << k)` is `k \in word`.                                 *)
(*  - a strip colour is the tuple <<r, g, b, w>> of its channels; a packed *)
(*    event colour is the integer 0xRRGGBB.                                *)
(*  - millis() is not a variable; each loop iteration draws its delta, and *)
(*    the time since the last packet is kept as a capped difference.       *)
(***************************************************************************)
EXTENDS Integers, Sequences, FiniteSets, TLC

\* ------------------------------------------------------------------ bounds
WordBits == 3
Uint32Mod == 2 ^ WordBits
MaxDelta == 1
PacketTimeoutScaled == 1
AnimStepMod == 2
MaxEventsScaled == 2
StripTimeoutScaled == 1
MaxPending == 2
DebounceScaled == 1
TxIntervalScaled == 1
PacketCountMod == 2
MaxTick == 9
RandMod == 100

\* ------------------------------------------------------- program constants
DEFAULT_NUM_LEDS == 164
DEFAULT_BRIGHTNESS == 255
TOTAL_PROPS == 20
MASK_ARRAY_SIZE == 7
SHOW_TOTAL_PROPS == MASK_ARRAY_SIZE * 32
MAX_EVENTS == MaxEventsScaled
SHOW_MAGIC == 1346978639
SHOW_VERSION == 3
LOAD_ATTEMPTS == 3
PACKET_TIMEOUT_MS == PacketTimeoutScaled
STRIP_TIMEOUT_MS == StripTimeoutScaled

CMD_OFF == 0
CMD_SOLID_COLOR == 1
CMD_CAMERA_FLASH == 2
CMD_STROBE == 3
CMD_RAINBOW_CHASE == 4
CMD_CHASE == 6
CMD_METEOR == 11
CMD_GLITCH == 14
CMD_ALTERNATE == 18
NO_EFFECT_RENDERED == 255

LED_WS2812B == 0
LED_SK6812_RGBW == 2
LED_WS2815 == 5
COLOR_GRB == 0

Min(a, b) == IF a < b THEN a ELSE b

\* ------------------------------------------------------------ data records
\* struct PropConfig
PropConfig(n, type, order, cap) ==
    [ledCount |-> n, ledType |-> type, colorOrder |-> order, brightnessCap |-> cap]

\* the initialiser of the global myConfig
DefaultConfig == PropConfig(DEFAULT_NUM_LEDS, LED_WS2812B, COLOR_GRB, DEFAULT_BRIGHTNESS)

\* struct ShowEvent
ShowEvent(s, d, fx, c, c2, mask) ==
    [startTime |-> s, duration |-> d, effectType |-> fx, speed |-> 0, width |-> 0,
     color |-> c, color2 |-> c2, targetMask |-> mask]

\* the current-effect globals (currentEffectType .. currentEffectWidth)
InitialEffect ==
    [type |-> CMD_OFF, start |-> 0, duration |-> 0, color |-> 0, color2 |-> 0,
     speed |-> 0, width |-> 0]

\* ------------------------------------------------------------- pixel values
BLACK == <<0, 0, 0, 0>>

\* some pixel of the frame is not black
IsLit(frame) == \E i \in 1..Len(frame) : frame[i] # BLACK

Max(a, b) == IF a > b THEN a ELSE b

Abs(a) == IF a < 0 THEN -a ELSE a

\* variant: the white channel taken as the largest of the three
MakeColor_MaxWhite(rgbw, r, g, b) ==
    IF ~rgbw THEN <<r, g, b, 0>>
    ELSE LET w == Max(r, Max(g, b))
         IN <<(r - w) % 256, (g - w) % 256, (b - w) % 256, w>>

\* makeColor(): Adafruit_NeoPixel::Color(r, g, b) and Color(r, g, b, w); the
\* differences r - w .. are ints cut to the uint8_t parameters of Color()
MakeColor(rgbw, r, g, b) ==
    IF ~rgbw THEN <<r, g, b, 0>>
    ELSE LET w == Min(r, Min(g, b))
         IN <<(r - w) % 256, (g - w) % 256, (b - w) % 256, w>>

MakeColorFromPacked(rgbw, rgb) ==
    MakeColor(rgbw, (rgb \div 65536) % 256, (rgb \div 256) % 256, rgb % 256)

\* strip.fill(c) / the explicit black loop, over a strip of n pixels
Fill(n, c) == [i \in 1..n |-> c]

\* --------------------------------------------------------------- addressing
\* uint8_t bucketIndex = (propID - 1) / 32;
BucketIndex(id) == (id - 1) \div 32

\* the bit position k of bitMask = (1UL << ((propID - 1) % 32))
BitPos(id) == (id - 1) % 32

\* variant: the mask bit taken at propID instead of propID - 1
TargetsProp_OneBased(e, id) == (id % 32) \in e.targetMask[id \div 32]

\* e->targetMask[bucketIndex] & bitMask
TargetsProp(e, id) == BitPos(id) \in e.targetMask[BucketIndex(id)]

\* e->startTime + e->duration, in uint32_t
EventEnd(e) == (e.startTime + e.duration) % Uint32Mod

\* variant: the end of the window included
InWindow_EndInclusive(e, t) == t >= e.startTime /\ t <= EventEnd(e)

\* currentShowTime >= e->startTime && currentShowTime < (e->startTime + e->duration)
InWindow(e, t) == t >= e.startTime /\ t < EventEnd(e)


\* ------------------------------------------------------------ show loading
\* the for loop of loadShowFromFlash that tracks the end time of the events
\* targeting this prop (i is the 0-based index, acc the running showEndTime)
RECURSIVE TrackEndTime(_, _, _, _, _)
TrackEndTime(sched, len, id, i, acc) ==
    IF i >= len THEN acc
    ELSE LET e == sched[i + 1]
             eventEnd == EventEnd(e)
         IN TrackEndTime(sched, len, id, i + 1,
                IF TargetsProp(e, id) /\ eventEnd > acc THEN eventEnd ELSE acc)

\* variant: a short header read not noticed
HeaderComplete_Any(n) == TRUE

\* f.read((uint8_t *)&header, sizeof(header)) == sizeof(header)
HeaderComplete(n) == n = 16

\* variant: the magic not compared
MagicValid_Any(m) == TRUE

\* header.magic == 0x5049434F
MagicValid(m) == m = SHOW_MAGIC

\* variant: the version dispatch of the 0.1.0 firmware, versions 1 and 2
\* accepted as well
VersionSupported_Legacy(v) == v \in {1, 2, SHOW_VERSION}

\* variant: every version from 3 on accepted
VersionSupported_AtLeast(v) == v >= SHOW_VERSION

\* if (header.version != 3) return false;
VersionSupported(v) == v = SHOW_VERSION

\* variant: the event count taken from the header as it is
ClampEventCount_Unclamped(eventCount) == eventCount

\* showLength = min((int)header.eventCount, MAX_EVENTS);
ClampEventCount(eventCount) == Min(eventCount, MAX_EVENTS)

\* ------------------------------------------------------- show file bytes
\* sizeof(ShowHeader), sizeof(PropConfig), sizeof(ShowEvent): packed structs
SizeofShowHeader == 16
SizeofPropConfig == 8
SizeofShowEvent == 48

Zeros(n) == [i \in 1..n |-> 0]

\* a 16-bit and a 32-bit value as stored by the little-endian RP2040
U16(v) == << v % 256, (v \div 256) % 256 >>

U32(v) == << v % 256, (v \div 256) % 256, (v \div 65536) % 256,
             (v \div 16777216) % 256 >>

\* a mask word, given as the set of its bit positions, as four bytes
MaskWordBytes(bits) ==
    LET bit(j) == IF j \in bits THEN 1 ELSE 0
        byte(k) == bit(8 * k) + 2 * bit(8 * k + 1) + 4 * bit(8 * k + 2)
                   + 8 * bit(8 * k + 3) + 16 * bit(8 * k + 4) + 32 * bit(8 * k + 5)
                   + 64 * bit(8 * k + 6) + 128 * bit(8 * k + 7)
    IN << byte(0), byte(1), byte(2), byte(3) >>

\* the header, a table entry and an event as the show file stores them
HeaderBytes(f) == U32(f.magic) \o U16(f.version) \o U16(f.eventCount) \o Zeros(8)

PropConfigBytes(c) ==
    U16(c.ledCount) \o << c.ledType, c.colorOrder, c.brightnessCap >> \o Zeros(3)

ShowEventBytes(e) ==
    U32(e.startTime) \o U32(e.duration) \o << e.effectType, e.speed, e.width, 0 >>
    \o U32(e.color) \o U32(e.color2)
    \o MaskWordBytes(e.targetMask[0]) \o MaskWordBytes(e.targetMask[1])
    \o MaskWordBytes(e.targetMask[2]) \o MaskWordBytes(e.targetMask[3])
    \o MaskWordBytes(e.targetMask[4]) \o MaskWordBytes(e.targetMask[5])
    \o MaskWordBytes(e.targetMask[6])

\* f.size(): the header (possibly cut short), the table entries the file
\* holds, the event records after them
FileSize(f) ==
    IF f.headerLen < SizeofShowHeader THEN f.headerLen
    ELSE SizeofShowHeader + SizeofPropConfig * f.lutEntries
         + SizeofShowEvent * Len(f.events)

\* the byte at offset off < FileSize(f); a table entry of a prop the show
\* does not configure is zero
FileByte(f, off) ==
    LET tableEnd == SizeofShowHeader + SizeofPropConfig * f.lutEntries IN
    IF off < SizeofShowHeader THEN HeaderBytes(f)[off + 1]
    ELSE IF off < tableEnd
    THEN LET p == ((off - SizeofShowHeader) \div SizeofPropConfig) + 1
             k == ((off - SizeofShowHeader) % SizeofPropConfig) + 1
         IN IF p \in DOMAIN f.lut THEN PropConfigBytes(f.lut[p])[k] ELSE 0
    ELSE LET i == ((off - tableEnd) \div SizeofShowEvent) + 1
             k == ((off - tableEnd) % SizeofShowEvent) + 1
         IN ShowEventBytes(f.events[i])[k]

\* f.seek(off); f.read(buf, n): the bytes read, fewer than n at the end of
\* the file
ReadAt(f, off, n) ==
    LET left == FileSize(f) - off
        got == IF left < 0 THEN 0 ELSE Min(n, left)
    IN [i \in 1..got |-> FileByte(f, off + i - 1)]

\* a little-endian field of a struct filled by f.read() / memcpy()
LE16(b, k) == b[k] + 256 * b[k + 1]

LE32(b, k) == b[k] + 256 * b[k + 1] + 65536 * b[k + 2] + 16777216 * b[k + 3]

\* the bits set in the 32-bit word at b[k .. k + 3]
BitsOf(b, k) == { j \in 0..31 : (b[k + (j \div 8)] \div (2 ^ (j % 8))) % 2 = 1 }

\* memcpy(&myConfig, rawConfig, sizeof(PropConfig))
DecodePropConfig(b) == PropConfig(LE16(b, 1), b[3], b[4], b[5])

\* f.read((uint8_t *)&showSchedule[i], sizeof(ShowEvent))
DecodeShowEvent(b) ==
    [startTime |-> LE32(b, 1), duration |-> LE32(b, 5), effectType |-> b[9],
     speed |-> b[10], width |-> b[11], color |-> LE32(b, 13),
     color2 |-> LE32(b, 17),
     targetMask |-> [w \in 0..(MASK_ARRAY_SIZE - 1) |-> BitsOf(b, 21 + 4 * w)]]

\* variant: the table indexed from 0
PropConfigOffset_ZeroBased(id) == SizeofShowHeader + id * SizeofPropConfig

\* propConfigOffset = sizeof(ShowHeader) + (propID - 1) * sizeof(PropConfig)
PropConfigOffset(id) == SizeofShowHeader + (id - 1) * SizeofPropConfig

\* f.seek(sizeof(ShowHeader) + SHOW_TOTAL_PROPS * sizeof(PropConfig))
EventsOffset == SizeofShowHeader + SHOW_TOTAL_PROPS * SizeofPropConfig

\* the file position of the read of event i (from 0), every read before it
\* having been complete
EventOffset(i) == EventsOffset + i * SizeofShowEvent

\* the for loop that reads the events: the records read before the first
\* short read, want at most
RECURSIVE ReadEvents(_, _, _, _)
ReadEvents(f, want, i, acc) ==
    IF i >= want THEN acc
    ELSE LET b == ReadAt(f, EventOffset(i), SizeofShowEvent) IN
         IF Len(b) # SizeofShowEvent THEN acc
         ELSE ReadEvents(f, want, i + 1, Append(acc, DecodeShowEvent(b)))

\* variant: a failed load leaves an empty configuration behind
LoadFailure_ZeroLeds(old) ==
    [old EXCEPT !.ok = FALSE, !.numLeds = 0, !.myConfig.ledCount = 0]

\* the early returns of loadShowFromFlash(): close the file and return false,
\* no global assigned
LoadFailure(old) == [old EXCEPT !.ok = FALSE]

\* loadShowFromFlash(): f is the content of /show.bin, old the globals before
\* the call; the result carries the return value and the globals after it
LoadShowFromFlash(f, id, old) ==
    LET fail == LoadFailure(old) IN
    IF ~f.exists THEN fail
    ELSE \* one LET per read, so that no read is evaluated before its guard
    LET hdr == ReadAt(f, 0, SizeofShowHeader) IN
    IF ~HeaderComplete(Len(hdr)) THEN fail
    ELSE IF ~MagicValid(LE32(hdr, 1)) THEN fail
    ELSE IF ~VersionSupported(LE16(hdr, 5)) THEN fail
    ELSE LET rawConfig == ReadAt(f, PropConfigOffset(id), SizeofPropConfig) IN
    IF Len(rawConfig) # SizeofPropConfig THEN fail
    ELSE LET cfg == DecodePropConfig(rawConfig)
             want == ClampEventCount(LE16(hdr, 7))
             sched == ReadEvents(f, want, 0, <<>>)
             len == Len(sched)
         IN [ok |-> TRUE, myConfig |-> cfg, numLeds |-> cfg.ledCount,
             showLength |-> len, showSchedule |-> sched,
             showEndTime |-> TrackEndTime(sched, len, id, 0, 0)]

\* --------------------------------------------------------------- scheduler
\* the for loop of checkSchedule(): index of the first event whose window
\* holds t and whose mask has this prop's bit, -1 when the loop ends without
\* a match (selectedIndex)
RECURSIVE ScanSchedule(_, _, _, _, _)
ScanSchedule(sched, len, t, id, i) ==
    IF i >= len THEN -1
    ELSE IF InWindow(sched[i + 1], t) /\ TargetsProp(sched[i + 1], id) THEN i
    ELSE ScanSchedule(sched, len, t, id, i + 1)

\* checkSchedule(): the current-effect globals after the call
CheckSchedule(sched, len, t, id, cur) ==
    IF len = 0 THEN [cur EXCEPT !.type = CMD_OFF]
    ELSE LET k == ScanSchedule(sched, len, t, id, 0) IN
         IF k >= 0
         THEN LET e == sched[k + 1] IN
              [type |-> e.effectType, start |-> e.startTime, duration |-> e.duration,
               color |-> e.color, color2 |-> e.color2, speed |-> e.speed,
               width |-> e.width]
         ELSE [cur EXCEPT !.type = CMD_OFF, !.start = t, !.duration = 0]

\* the value of the local selectedIndex when checkSchedule() returns
SelectedIndex(sched, len, t, id) ==
    IF len = 0 THEN -1 ELSE ScanSchedule(sched, len, t, id, 0)

\* ------------------------------------------------------------ frame output
\* the strip and its flags, threaded through one handler:
\*   px = pixel buffer, out = frame last sent by strip.show(),
\*   dirty = frameDirty, off = stripIsOff, tx = strip.show() calls so far
StripShow(s) == [s EXCEPT !.out = s.px, !.tx = s.tx + 1]

\* variant: stripIsOff left as it is
MarkDirty_KeepsOff(s) == [s EXCEPT !.dirty = TRUE]

\* variant: the frame not flagged as changed
MarkDirty_NoFlag(s) == [s EXCEPT !.off = FALSE]

\* markDirty()
MarkDirty(s) == [s EXCEPT !.dirty = TRUE, !.off = FALSE]

\* markAllOff()
MarkAllOff(s) == [s EXCEPT !.off = TRUE, !.dirty = TRUE]

\* variant: the frame transmitted whether or not it is flagged
ShowIfDirty_Always(s) == [StripShow(s) EXCEPT !.dirty = FALSE]

\* showIfDirty()
ShowIfDirty(s) == IF s.dirty THEN [StripShow(s) EXCEPT !.dirty = FALSE] ELSE s

\* strip.clear()
StripClear(s) == [s EXCEPT !.px = Fill(Len(s.px), BLACK)]

\* variant: the strip cleared and flagged off, the frame not transmitted
ForceOff_NotTransmitted(s) ==
    [StripClear(s) EXCEPT !.off = TRUE, !.dirty = FALSE]

\* the "always clear" sequence used by renderFrame's OFF branch, the show-
\* complete branch and standby: black loop, strip.show(), stripIsOff = true,
\* frameDirty = false
ForceOff(s) ==
    [StripShow(StripClear(s)) EXCEPT !.off = TRUE, !.dirty = FALSE]

\* the effect renderers that are exact in integers; n = strip.numPixels()
RenderSolid(n, c) == Fill(n, c)

RenderCameraFlash(n, localTime, rgbw) ==
    IF localTime % 500 < 50 THEN Fill(n, MakeColor(rgbw, 255, 255, 255))
    ELSE Fill(n, BLACK)

RenderStrobe(n, localTime, c) ==
    IF (localTime \div 33) % 2 = 0 THEN Fill(n, c) ELSE Fill(n, BLACK)

RenderAlternate(n, c, c2) == [i \in 1..n |-> IF (i - 1) % 2 = 0 THEN c ELSE c2]

\* the effect kinds whose renderer is modelled above
ModelledEffects == {CMD_SOLID_COLOR, CMD_CAMERA_FLASH, CMD_STROBE, CMD_ALTERNATE}

\* the effect kinds of enum EffectType that have a case in renderFrame's switch
KnownEffects == {1, 2, 3, 4, 5, 6, 9, 10, 11, 12, 13, 14, 15, 16, 17, 18}

\* variant: no safety net
SafetyNet_Disabled(cur, t) == cur

\* the end-time safety net at the top of renderFrame()
SafetyNet(cur, t) ==
    IF cur.type # CMD_OFF /\ cur.duration > 0
       /\ t >= (cur.start + cur.duration) % Uint32Mod
    THEN [cur EXCEPT !.type = CMD_OFF, !.start = t, !.duration = 0]
    ELSE cur

\* variant: the default case leaves the strip as it is
RenderDefault_Keep(s) == s

\* default: if (!stripIsOff) { strip.clear(); markAllOff(); }
RenderDefault(s) == IF ~s.off THEN MarkAllOff(StripClear(s)) ELSE s

\* the switch of renderFrame() for a non-OFF effect
RenderSwitch(cur, t, s, rgbw) ==
    LET n == Len(s.px)
        localTime == (t - cur.start) % Uint32Mod
        c == MakeColorFromPacked(rgbw, cur.color)
        c2 == MakeColorFromPacked(rgbw, cur.color2)
    IN CASE cur.type = CMD_SOLID_COLOR ->
                MarkDirty([s EXCEPT !.px = RenderSolid(n, c)])
         [] cur.type = CMD_CAMERA_FLASH ->
                MarkDirty([s EXCEPT !.px = RenderCameraFlash(n, localTime, rgbw)])
         [] cur.type = CMD_STROBE ->
                MarkDirty([s EXCEPT !.px = RenderStrobe(n, localTime, c)])
         [] cur.type = CMD_ALTERNATE ->
                MarkDirty([s EXCEPT !.px = RenderAlternate(n, c, c2)])
         [] cur.type \in KnownEffects \ ModelledEffects ->
                \* a renderer computed in floating point or from rand(): the
                \* frame is tagged with its inputs, not interpreted
                MarkDirty([s EXCEPT !.px = Fill(n, <<-1, cur.type, localTime, cur.color>>)])
         [] OTHER -> RenderDefault(s)

\* renderFrame(): the current effect, the strip and lastRenderedEffectType
\* after the call
RenderFrame(cur, t, s, rgbw) ==
    LET cur1 == SafetyNet(cur, t) IN
    IF cur1.type = CMD_OFF
    THEN [cur |-> cur1, strip |-> ForceOff(s), last |-> CMD_OFF]
    ELSE [cur |-> cur1, strip |-> RenderSwitch(cur1, t, s, rgbw), last |-> cur1.type]

\* animationRainbowChase() once its 30 ms throttle lets it run: the pixel
\* buffer for the incremented animationStep
TestFrame(n, step, rgbw) ==
    LET palette == << MakeColor(rgbw, 255, 0, 0), MakeColor(rgbw, 255, 255, 0),
                      MakeColor(rgbw, 0, 0, 255), MakeColor(rgbw, 255, 255, 255) >>
    IN [i \in 1..n |-> palette[((((i - 1) + step) \div 20) % 4) + 1]]


\* ------------------------------------------------------------------- state
VARIABLES
    file,                    \* content of /show.bin on the flash file system
    propID,                  \* this prop's identity, as returned by loadPropID()
    pc,                      \* "load", "configure", "loop" or "setupMode"
    attempt,                 \* loop variable of loadShowFromFlashWithRetry
    loadLog,                 \* the loadShowFromFlash() calls made so far: whether
                             \* the file system had settled, and the return value
    showLoaded,              \* local of setup()
    showSchedule, showLength, showEndTime, myConfig, numLeds, isRGBW,
    currentShowTime, isShowPlaying, radioInitialized,
    inTestMode, inSetupMode,
    sincePacket,             \* now - lastPacketTime, capped above the timeout
    packetReceivedThisFrame,
    cur,                     \* currentEffectType .. currentEffectWidth
    lastRenderedEffectType,
    frameDirty, stripIsOff,
    pixels,                  \* the strip's pixel buffer
    shown,                   \* the frame last transmitted by strip.show()
    buttonPressFlag,
    animationStep,
    iterDelta,               \* local delta of the last loop() iteration
    iterPacket,              \* local packet of the last loop() iteration
    iterBranch,              \* branch the last loop() iteration took
    selectedIndex,           \* local selectedIndex of the last checkSchedule()
    txCount,                 \* strip.show() calls made by the last handler
    litFor,                  \* wall time the show has kept the strip lit since an
                             \* event was last newly selected, capped above the
                             \* timeout
    pressesPending,          \* presses button_isr() has accepted since loop() last
                             \* cleared buttonPressFlag
    iterButton,              \* button level read by the last loop() iteration
    prevComplete,            \* the loop() iteration before the last one took the
                             \* show-complete branch
    eeprom,                  \* EEPROM byte 0, the persisted prop identity
    tempPropID,              \* local of handleSetupMode()
    lastIsPressed,           \* local of handleSetupMode()
    \* ---- the remote (picolume_remote.ino)
    cueFile,                 \* the remote's /show.bin: its size and last 32 bytes
    remotePc,                \* "setup" or "loop"
    masterTime, isPlaying, packetCount, activeCue, cueTimes, cuesLoaded,
    lastButtonState,         \* lastStopState, lastPlayState, lastCueAState ..
    sinceDebounce,           \* now - debounceTime, capped above the window
    sinceTx,                 \* now - lastTxTime, capped above the interval
    sentPacket,              \* the packet the last loop() iteration broadcast
    iterAccepted,            \* the button press the last loop() iteration accepted
    stoppedByButton,         \* an accepted Config/Stop press has not been followed
                             \* by an accepted Play or cue press
    \* ---- makeColor() and the effect renderers called on their own
    call,                    \* the last such call: its arguments, locals and result
    randState                \* the state of the C library's rand()

vars == << file, propID, pc, attempt, loadLog, showLoaded, showSchedule, showLength,
           showEndTime, myConfig, numLeds, isRGBW, currentShowTime,
           isShowPlaying, radioInitialized, inTestMode, inSetupMode,
           sincePacket, packetReceivedThisFrame, cur, lastRenderedEffectType,
           frameDirty, stripIsOff, pixels, shown, buttonPressFlag,
           animationStep, iterDelta, iterPacket, iterBranch, selectedIndex,
           txCount, litFor, pressesPending, iterButton, prevComplete, eeprom,
           tempPropID, lastIsPressed, cueFile, remotePc, masterTime, isPlaying, packetCount,
           activeCue, cueTimes, cuesLoaded, lastButtonState, sinceDebounce,
           sinceTx, sentPacket, iterAccepted, stoppedByButton, call, randState >>

\* the renderer call under study and the generator it draws from
effectVars == << call, randState >>

\* the state of handleSetupMode() and of the EEPROM
setupVars == << eeprom, tempPropID, lastIsPressed >>

\* the state of the receiver
receiverVars ==
    << file, propID, pc, attempt, loadLog, showLoaded, showSchedule, showLength,
       showEndTime, myConfig, numLeds, isRGBW, currentShowTime, isShowPlaying,
       radioInitialized, inTestMode, inSetupMode, sincePacket,
       packetReceivedThisFrame, cur, lastRenderedEffectType, frameDirty,
       stripIsOff, pixels, shown, buttonPressFlag, animationStep, iterDelta,
       iterPacket, iterBranch, selectedIndex, txCount, litFor, pressesPending,
       iterButton, prevComplete, eeprom, tempPropID, lastIsPressed >>

\* the state of the remote
remoteVars == << cueFile, remotePc, masterTime, isPlaying, packetCount, activeCue,
                cueTimes, cuesLoaded, lastButtonState, sinceDebounce, sinceTx,
                sentPacket, iterAccepted, stoppedByButton >>

showVars == << showSchedule, showLength, showEndTime, myConfig, numLeds >>

\* ------------------------------------------------------------------ inputs
RED == 16711680
GREEN == 65280
CMD_UNDEFINED == 7
CMD_BEYOND == 19

\* a target mask with the given bits in buckets 0 and 1
Mask(b0, b1) ==
    [b \in 0..(MASK_ARRAY_SIZE - 1) |-> IF b = 0 THEN b0 ELSE IF b = 1 THEN b1 ELSE {}]

\* prop 3 is bit 2 and prop 4 bit 3 of bucket 0; prop 35 is bit 2 of bucket 1
PropIDs == {3, 4}

Events ==
    { ShowEvent(2, 3, CMD_SOLID_COLOR, RED, 0, Mask({2, 3}, {})),
      ShowEvent(3, 4, CMD_SOLID_COLOR, GREEN, 0, Mask({2}, {})),
      ShowEvent(Uint32Mod - 3, 5, CMD_SOLID_COLOR, RED, 0, Mask({2, 3}, {})),
      ShowEvent(2, 3, CMD_UNDEFINED, RED, 0, Mask({3}, {})),
      ShowEvent(3, 4, CMD_OFF, 0, 0, Mask({3}, {})),
      ShowEvent(2, 3, CMD_SOLID_COLOR, GREEN, 0, Mask({}, {2})),
      ShowEvent(4, 0, CMD_SOLID_COLOR, RED, 0, Mask({2, 3}, {})),
      ShowEvent(3, 4, CMD_BEYOND, GREEN, 0, Mask({3}, {})) }

EventLists == { <<>> } \cup { <<e>> : e \in Events }
                \cup { <<e1, e2>> : e1 \in Events, e2 \in Events }

\* the configuration table of the model files: one entry per prop identity
Lut == [p \in 1..TOTAL_PROPS |->
            IF p = 4 THEN PropConfig(3, LED_SK6812_RGBW, COLOR_GRB, 128)
            ELSE PropConfig(2, LED_WS2812B, COLOR_GRB, 255)]

ShowFile(evs) ==
    [exists |-> TRUE, headerLen |-> 16, magic |-> SHOW_MAGIC, version |-> SHOW_VERSION,
     eventCount |-> Len(evs), lutEntries |-> SHOW_TOTAL_PROPS, lut |-> Lut,
     events |-> evs]

BadMagicFile == [ShowFile(<<>>) EXCEPT !.magic = 0]

\* no /show.bin, or a file system that has not settled: FatFS.open() fails
AbsentFile == [ShowFile(<<>>) EXCEPT !.exists = FALSE]

Files == { ShowFile(evs) : evs \in EventLists } \cup { BadMagicFile }

\* show files for the loader: a header cut short, the versions around 3, a
\* configuration table that ends after prop 3's entry, an event list shorter
\* and longer than the header's eventCount, more events than MAX_EVENTS
ShortHeaderFile == [ShowFile(<<>>) EXCEPT !.headerLen = 10]

VersionFile(v) ==
    [ShowFile(<< ShowEvent(2, 3, CMD_SOLID_COLOR, RED, 0, Mask({2, 3}, {})) >>)
        EXCEPT !.version = v]

ShortLutFile == [ShowFile(<<>>) EXCEPT !.lutEntries = 3, !.eventCount = 1]

TruncatedEventsFile == [VersionFile(SHOW_VERSION) EXCEPT !.eventCount = 2]

TrailingEventsFile ==
    [ShowFile(<< ShowEvent(2, 3, CMD_SOLID_COLOR, RED, 0, Mask({2, 3}, {})),
                 ShowEvent(3, 4, CMD_SOLID_COLOR, GREEN, 0, Mask({2}, {})) >>)
        EXCEPT !.eventCount = 1]

ExcessEventsFile ==
    ShowFile([i \in 1..(MAX_EVENTS + 2) |->
                 ShowEvent(2, 3, CMD_SOLID_COLOR, RED, 0, Mask({2, 3}, {}))])

ExcessTruncatedFile ==
    [ExcessEventsFile EXCEPT !.eventCount = MAX_EVENTS + 3]

\* two different events, and a strip of 300 LEDs (a count of two bytes) for
\* prop 4
LongStripFile ==
    [ShowFile(<< ShowEvent(2, 3, CMD_SOLID_COLOR, RED, 0, Mask({2, 3}, {})),
                 ShowEvent(3, 4, CMD_STROBE, GREEN, RED, Mask({3}, {2})) >>)
        EXCEPT !.lut = [Lut EXCEPT ![4] = PropConfig(300, LED_SK6812_RGBW, 5, 128)]]

LoadFiles ==
    { AbsentFile, ShortHeaderFile, BadMagicFile, ShortLutFile,
      TruncatedEventsFile, TrailingEventsFile, ExcessEventsFile,
      ExcessTruncatedFile, LongStripFile }
    \cup { VersionFile(v) : v \in 0..(SHOW_VERSION + 1) }

\* the show files of the full-input specification: an empty show,
\* two overlapping events, an event whose end passes 2^32
ClockFiles ==
    { ShowFile(<<>>),
      ShowFile(<< ShowEvent(2, 3, CMD_SOLID_COLOR, RED, 0, Mask({2, 3}, {})),
                  ShowEvent(3, 4, CMD_SOLID_COLOR, GREEN, 0, Mask({2}, {})) >>),
      ShowFile(<< ShowEvent(Uint32Mod - 3, 5, CMD_SOLID_COLOR, RED, 0, Mask({2, 3}, {})) >>) }

NoPacket == [received |-> FALSE, masterTime |-> 0, state |-> 0]

Packet(m, st) == [received |-> TRUE, masterTime |-> m, state |-> st]

Packets == { Packet(0, 0), Packet(0, 1), Packet(3, 1), Packet(Uint32Mod - 2, 1),
             Packet(3, 2) }

SinceCap == PACKET_TIMEOUT_MS + 1

LitCap == STRIP_TIMEOUT_MS + 1

\* ------------------------------------------------------- remote: inputs
CUE_MAGIC == 826627395
CUE_UNUSED == Uint32Mod - 1

\* the buttons of the remote, in the order loop() looks at them
RemoteButtons == << "stop", "play", "cueA", "cueB", "cueC", "cueD" >>

\* index into cueTimes[] of a cue button, counted from 1
CueOf(b) == CASE b = "cueA" -> 1 [] b = "cueB" -> 2 [] b = "cueC" -> 3 [] b = "cueD" -> 4

\* the initialiser of cueTimes[]
NoCues == [i \in 1..4 |-> CUE_UNUSED]

\* the remote's /show.bin: whether it exists, its size in bytes, and the
\* magic and times[] of its last 32 bytes
CueFile(times) == [exists |-> TRUE, size |-> 1904, magic |-> CUE_MAGIC, times |-> times]

NoCueFile == [CueFile(NoCues) EXCEPT !.exists = FALSE]

\* cue A at 1, cue C at 5, cue D at 0, cue B not configured; a show without
\* a cue block; a file shorter than a cue block
CueFiles ==
    { CueFile(<< 1, CUE_UNUSED, 5, 0 >>),
      [CueFile(<< 1, 2, 3, 4 >>) EXCEPT !.magic = SHOW_MAGIC],
      [CueFile(<< 1, 2, 3, 4 >>) EXCEPT !.size = 16] }

NoPacketSent == [sent |-> FALSE, packetCounter |-> 0, masterTime |-> 0, state |-> 0]

DebounceCap == DebounceScaled + 1

TxCap == TxIntervalScaled + 1

\* the remote's globals' initialisers; the first loop() runs more than a
\* second after debounceTime = 0 and lastTxTime = 0
InitRemote(files) ==
    /\ cueFile \in files
    /\ remotePc = "setup"
    /\ masterTime = 0
    /\ isPlaying = FALSE
    /\ packetCount = 0
    /\ activeCue = 0
    /\ cueTimes = NoCues
    /\ cuesLoaded = FALSE
    /\ lastButtonState = [b \in 1..6 |-> "HIGH"]
    /\ sinceDebounce = DebounceCap
    /\ sinceTx = TxCap
    /\ sentPacket = NoPacketSent
    /\ iterAccepted = "none"
    /\ stoppedByButton = FALSE

\* no renderer called yet
NoCall == [fn |-> "none"]

\* the generator before any srand(): the C library starts it as if srand(1)
RAND_INITIAL == 1

\* -------------------------------------------------------------------- Init
\* the globals' initialisers, and setup() up to the call of
\* loadShowFromFlashWithRetry(3): strip cleared and shown
InitGlobals ==
    /\ attempt = 1
    /\ loadLog = <<>>
    /\ showLoaded = FALSE
    /\ showSchedule = <<>>
    /\ showLength = 0
    /\ showEndTime = 0
    /\ myConfig = DefaultConfig
    /\ numLeds = DEFAULT_NUM_LEDS
    /\ isRGBW = FALSE
    /\ currentShowTime = 0
    /\ isShowPlaying = FALSE
    /\ radioInitialized = FALSE
    /\ inTestMode = FALSE
    /\ inSetupMode = FALSE
    /\ sincePacket = 0
    /\ packetReceivedThisFrame = FALSE
    /\ cur = InitialEffect
    /\ lastRenderedEffectType = NO_EFFECT_RENDERED
    /\ frameDirty = FALSE
    /\ stripIsOff = TRUE
    /\ pixels = Fill(DEFAULT_NUM_LEDS, BLACK)
    /\ shown = Fill(DEFAULT_NUM_LEDS, BLACK)
    /\ buttonPressFlag = FALSE
    /\ animationStep = 0
    /\ iterDelta = 0
    /\ iterPacket = NoPacket
    /\ iterBranch = "none"
    /\ selectedIndex = -1
    /\ txCount = 0
    /\ litFor = 0
    /\ pressesPending = 0
    /\ iterButton = "up"
    /\ prevComplete = FALSE
    /\ tempPropID = 0
    /\ lastIsPressed = FALSE
    /\ call = NoCall
    /\ randState = RAND_INITIAL

\* the receiver at the call of loadShowFromFlashWithRetry(3), its identity
\* the one persisted in the EEPROM; the remote not started
InitWith(files) ==
    /\ file \in files
    /\ propID \in PropIDs
    /\ eeprom = propID
    /\ pc = "load"
    /\ InitGlobals
    /\ InitRemote({NoCueFile})

Init == InitWith(ClockFiles)

InitSched == InitWith(Files)


\* ------------------------------------------------------------------- setup
\* variant: the retry loop goes round again after a successful attempt
RetryAgain_AfterSuccess(ok, n) == n < LOAD_ATTEMPTS

\* variant: a failed attempt is final
RetryAgain_Never(ok, n) == FALSE

\* the for loop of loadShowFromFlashWithRetry(3) goes round again: the
\* attempt returned false and attempt < maxAttempts
RetryAgain(ok, n) == ~ok /\ n < LOAD_ATTEMPTS

\* one pass of the for loop of loadShowFromFlashWithRetry(3), called by
\* setup(); ready is whether the file system has settled (FatFS.open() finds
\* the file that is on the flash)
LoadAttemptWith(settled) ==
    /\ pc = "load"
    /\ \E ready \in settled :
       LET old == [ok |-> FALSE, myConfig |-> myConfig, numLeds |-> numLeds,
                   showLength |-> showLength, showSchedule |-> showSchedule,
                   showEndTime |-> showEndTime]
           seen == IF ready THEN file ELSE AbsentFile
       IN \E r \in {LoadShowFromFlash(seen, propID, old)} :
          /\ myConfig' = r.myConfig
          /\ numLeds' = r.numLeds
          /\ showLength' = r.showLength
          /\ showSchedule' = r.showSchedule
          /\ showEndTime' = r.showEndTime
          /\ showLoaded' = r.ok
          /\ loadLog' = Append(loadLog, [ready |-> ready, ok |-> r.ok])
          /\ IF RetryAgain(r.ok, attempt)
             THEN pc' = "load" /\ attempt' = attempt + 1
             ELSE pc' = "configure" /\ attempt' = attempt
    /\ UNCHANGED << prevComplete, effectVars, remoteVars, setupVars, pressesPending, iterButton,
                    file, propID, isRGBW, currentShowTime, isShowPlaying,
                    radioInitialized, inTestMode, inSetupMode, sincePacket,
                    packetReceivedThisFrame, cur, lastRenderedEffectType,
                    frameDirty, stripIsOff, pixels, shown, buttonPressFlag,
                    animationStep, iterDelta, iterPacket, iterBranch,
                    selectedIndex, txCount, litFor >>

\* the load attempts of a boot whose file system has settled
LoadAttempt == LoadAttemptWith({TRUE})

\* the rest of setup(): the error pixel when no show was loaded, the strip
\* configured from myConfig and cleared, the radio initialised (radioOk is
\* the outcome of driver.init() && driver.setFrequency())
SetupFinish ==
    /\ pc = "configure"
    /\ \E radioOk \in BOOLEAN :
          /\ radioInitialized' = radioOk
          /\ isRGBW' = (myConfig.ledType = LED_SK6812_RGBW)
          /\ pixels' = Fill(numLeds, BLACK)
          /\ shown' = Fill(numLeds, BLACK)
          /\ stripIsOff' = TRUE
          /\ frameDirty' = FALSE
          /\ txCount' = IF showLoaded THEN 1 ELSE 2
          /\ pc' = "loop"
    /\ UNCHANGED << prevComplete, effectVars, remoteVars, setupVars, pressesPending, iterButton,
                    file, propID, attempt, loadLog, showLoaded, showVars,
                    currentShowTime, isShowPlaying, inTestMode, inSetupMode,
                    sincePacket, packetReceivedThisFrame, cur,
                    lastRenderedEffectType, buttonPressFlag, animationStep,
                    iterDelta, iterPacket, iterBranch, selectedIndex, litFor >>

\* button_isr() on a falling edge outside its 200 ms debounce window, while
\* buttonPressFlag has one of the values in flags
ButtonIsrWhen(flags) ==
    /\ pc = "loop"
    /\ buttonPressFlag \in flags
    /\ pressesPending < MaxPending
    /\ buttonPressFlag' = TRUE
    /\ pressesPending' = pressesPending + 1
    /\ UNCHANGED << prevComplete, effectVars, remoteVars, setupVars, iterButton,
                    file, propID, pc, attempt, loadLog, showLoaded, showVars,
                    isRGBW, currentShowTime, isShowPlaying, radioInitialized,
                    inTestMode, inSetupMode, sincePacket, packetReceivedThisFrame,
                    cur, lastRenderedEffectType, frameDirty, stripIsOff, pixels,
                    shown, animationStep, iterDelta, iterPacket, iterBranch,
                    selectedIndex, txCount, litFor >>

\* a press accepted after loop() has answered the one before
ButtonIsr == ButtonIsrWhen({FALSE})

\* -------------------------------------------------------------------- loop
\* variant: a frame without a packet pauses the show
ClockOnPacket_PauseOnLoss(rx, t, playing) ==
    IF rx.received THEN [time |-> rx.masterTime, playing |-> (rx.state = 1)]
    ELSE [time |-> t, playing |-> FALSE]

\* variant: a received packet not applied
ClockOnPacket_Ignore(rx, t, playing) == [time |-> t, playing |-> playing]

\* currentShowTime = packet.masterTime; isShowPlaying = (packet.state == 1);
ClockOnPacket(rx, t, playing) ==
    IF rx.received THEN [time |-> rx.masterTime, playing |-> (rx.state = 1)]
    ELSE [time |-> t, playing |-> playing]

\* variant: the delta added whether or not a packet arrived (the loop of the
\* 0.1.0 firmware)
LocalAdvance_Always(t, delta, received) == (t + delta) % Uint32Mod

\* variant: the delta never added
LocalAdvance_Never(t, delta, received) == t

\* if (!packetReceivedThisFrame) currentShowTime += delta;
LocalAdvance(t, delta, received) ==
    IF ~received THEN (t + delta) % Uint32Mod ELSE t

\* variant: the comparison turned around
\* variant: a show with an end is complete at every time
ShowComplete_AnyTime(endTime, t) == endTime > 0

\* variant: the comparison reversed
ShowComplete_Reversed(endTime, t) == endTime > 0 /\ endTime > t

\* if (showEndTime > 0 && currentShowTime > showEndTime)
ShowComplete(endTime, t) == endTime > 0 /\ t > endTime

\* variant: the show branch taken whether or not the show is playing (the
\* loop of the 0.1.0 firmware ran the scheduler unconditionally)
LoopBranch_IgnorePlaying(test, playing) ==
    IF test THEN "test" ELSE "play"

\* variant: a playing show rendered in test mode as well
LoopBranch_ShowInTest(test, playing) ==
    IF playing THEN "play" ELSE IF test THEN "test" ELSE "standby"

\* if (inTestMode) .. else if (isShowPlaying) .. else ..
LoopBranch(test, playing) ==
    IF test THEN "test" ELSE IF playing THEN "play" ELSE "standby"

\* now - lastPacketTime for the new iteration
SinceAfter(rx, since, delta) ==
    IF rx.received THEN 0 ELSE Min(since + delta, SinceCap)

\* updateDisplay(): the "MODE: NO SIGNAL" line (setup and test mode excluded)
NoSignal == ~inSetupMode /\ ~inTestMode /\ sincePacket > PACKET_TIMEOUT_MS

\* the radioInitialized branch of loop(); the result holds the globals and
\* the recorded locals after the iteration
LoopRadio(delta, rx, buttonIsDown, animDue) ==
    LET clk == ClockOnPacket(rx, currentShowTime, isShowPlaying)
        s0 == [px |-> pixels, out |-> shown, dirty |-> frameDirty,
               off |-> stripIsOff, tx |-> 0]
        toggle == buttonPressFlag /\ ~buttonIsDown
        test1 == IF toggle THEN ~inTestMode ELSE inTestMode
        s1 == IF toggle /\ ~test1 THEN ShowIfDirty(MarkAllOff(StripClear(s0))) ELSE s0
        step1 == IF toggle THEN 0 ELSE animationStep
        flag1 == IF toggle THEN FALSE ELSE buttonPressFlag
        pending1 == IF toggle THEN 0 ELSE pressesPending
        branch == LoopBranch(test1, clk.playing)
        base == [time |-> clk.time, playing |-> clk.playing, test |-> test1,
                 flag |-> flag1, pending |-> pending1, step |-> step1, cur |-> cur,
                 last |-> lastRenderedEffectType, sel |-> -1]
    IN  IF branch = "test"
        THEN IF animDue
             THEN LET step2 == (step1 + 1) % AnimStepMod IN
                  [base EXCEPT !.step = step2] @@
                  [branch |-> "test",
                   strip |-> ShowIfDirty(MarkDirty(
                       [s1 EXCEPT !.px = TestFrame(Len(s1.px), step2, isRGBW)]))]
             ELSE base @@ [branch |-> "test", strip |-> ShowIfDirty(s1)]
        ELSE IF branch = "play"
        THEN LET t2 == LocalAdvance(clk.time, delta, rx.received) IN
             IF ShowComplete(showEndTime, t2)
             THEN [base EXCEPT !.time = t2, !.last = CMD_OFF] @@
                  [branch |-> "complete", strip |-> ShowIfDirty(ForceOff(s1))]
             ELSE LET c1 == CheckSchedule(showSchedule, showLength, t2, propID, cur)
                      rf == RenderFrame(c1, t2, s1, isRGBW)
                  IN [base EXCEPT !.time = t2, !.cur = rf.cur, !.last = rf.last,
                                  !.sel = SelectedIndex(showSchedule, showLength,
                                                        t2, propID)] @@
                     [branch |-> "show", strip |-> ShowIfDirty(rf.strip)]
        ELSE [base EXCEPT !.last = CMD_OFF] @@
             [branch |-> "standby", strip |-> ShowIfDirty(ForceOff(s1))]

\* the wall time the show has kept the strip lit after an iteration with
\* result r: 0 when the iteration did not render the show, when
\* checkSchedule() selected an event other than the one of the iteration
\* before, or when the transmitted frame is black
LitAfter(r, delta) ==
    LET newlySelected == /\ r.sel >= 0
                         /\ ~(iterBranch = "show" /\ selectedIndex = r.sel)
    IN IF r.branch = "show" /\ ~newlySelected /\ IsLit(r.strip.out)
       THEN Min(litFor + delta, LitCap)
       ELSE 0

\* loop() when the button has been held for more than LONG_PRESS_MS:
\* handleSetupMode() is entered and does not return
LoopLongPress ==
    /\ pc = "loop"
    /\ \E delta \in 0..MaxDelta : iterDelta' = delta
    /\ pc' = "setupMode"
    /\ inSetupMode' = TRUE
    /\ iterBranch' = "setup"
    /\ selectedIndex' = -1
    /\ txCount' = 0
    /\ iterButton' = "down"
    /\ tempPropID' = propID
    /\ lastIsPressed' = FALSE
    /\ UNCHANGED << prevComplete, effectVars, remoteVars, eeprom, pressesPending,
                    file, propID, attempt, loadLog, showLoaded, showVars,
                    isRGBW, radioInitialized, currentShowTime, isShowPlaying,
                    inTestMode, sincePacket, packetReceivedThisFrame, iterPacket,
                    cur, lastRenderedEffectType, frameDirty, stripIsOff, pixels,
                    shown, buttonPressFlag, animationStep, litFor >>

\* variant: an iteration that drops the loaded show
LoopFrame_DropsShow ==
    /\ showSchedule' = <<>>
    /\ showLength' = 0
    /\ UNCHANGED << effectVars, remoteVars, setupVars, file, propID, attempt, loadLog,
                    showLoaded, showEndTime, myConfig, numLeds, isRGBW,
                    radioInitialized >>

\* what no statement of loop() assigns: the loaded show, the strip type, the
\* identity, the outcome of setup()
LoopFrame ==
    UNCHANGED << effectVars, remoteVars, setupVars, file, propID, attempt, loadLog,
                 showLoaded, showVars, isRGBW, radioInitialized >>

\* loop(): one iteration without a long press; delta is now - lastLocalMillis,
\* rx the packet polled from the radio (if any), button the button level
\* (read only while buttonPressFlag is set), animDue whether the test
\* animation's 30 ms throttle has passed
LoopWith(deltas, rxs, buttons) ==
    /\ pc = "loop"
    /\ \E delta \in deltas, rx \in rxs,
          button \in (IF buttonPressFlag THEN buttons ELSE {"up"}),
          animDue \in (IF inTestMode \/ buttonPressFlag THEN BOOLEAN ELSE {TRUE}) :
          /\ iterDelta' = delta
          /\ iterButton' = button
          /\ prevComplete' = (iterBranch = "complete")
          /\ packetReceivedThisFrame' = (radioInitialized /\ rx.received)
          /\ iterPacket' = (IF radioInitialized THEN rx ELSE NoPacket)
          /\ IF radioInitialized
             THEN \E r \in {LoopRadio(delta, rx, button = "down", animDue)} :
                  /\ currentShowTime' = r.time
                  /\ isShowPlaying' = r.playing
                  /\ inTestMode' = r.test
                  /\ buttonPressFlag' = r.flag
                  /\ pressesPending' = r.pending
                  /\ animationStep' = r.step
                  /\ cur' = r.cur
                  /\ lastRenderedEffectType' = r.last
                  /\ selectedIndex' = r.sel
                  /\ iterBranch' = r.branch
                  /\ pixels' = r.strip.px
                  /\ shown' = r.strip.out
                  /\ frameDirty' = r.strip.dirty
                  /\ stripIsOff' = r.strip.off
                  /\ txCount' = r.strip.tx
                  /\ sincePacket' = SinceAfter(rx, sincePacket, delta)
                  /\ litFor' = LitAfter(r, delta)
                  /\ UNCHANGED << pc, inSetupMode >>
             ELSE \* "RADIO FAILED" screen, delay(500)
                  /\ iterBranch' = "noradio"
                  /\ selectedIndex' = -1
                  /\ txCount' = 0
                  /\ sincePacket' = Min(sincePacket + delta, SinceCap)
                  /\ UNCHANGED << pc, inSetupMode, currentShowTime, isShowPlaying,
                                  inTestMode, cur, lastRenderedEffectType,
                                  frameDirty, stripIsOff, pixels, shown,
                                  buttonPressFlag, pressesPending,
                                  animationStep, litFor >>
    /\ LoopFrame

\* loop() under every input of the model
Loop == LoopWith(0..MaxDelta, {NoPacket} \cup Packets, {"up", "down"})

Next == LoadAttempt \/ SetupFinish \/ ButtonIsr \/ LoopLongPress \/ Loop

Spec == Init /\ [][Next]_vars

\* loop() while the button is never touched
LoopButtonIdle == LoopWith(0..MaxDelta, {NoPacket} \cup Packets, {"up"})

NextSched == LoadAttempt \/ SetupFinish \/ LoopButtonIdle

\* the receiver over every model show file, button idle
SpecSched == InitSched /\ [][NextSched]_vars

\* ------------------------------------------ the button under every timing
\* a press accepted whether or not loop() has cleared the flag of the one
\* before: the button is released and pressed again (or bounces on release)
\* before an iteration finds it up, or button_isr() runs between the test
\* of buttonPressFlag in loop() and its clear
ButtonIsrAny == ButtonIsrWhen(BOOLEAN)

InitButton ==
    InitWith({ ShowFile(<< ShowEvent(2, 3, CMD_SOLID_COLOR, RED, 0, Mask({2, 3}, {})) >>) })

\* loop() with or without a packet, stopped at 0 or playing at 3
LoopButton ==
    LoopWith(0..MaxDelta, { NoPacket, Packet(0, 0), Packet(3, 1) }, {"up", "down"})

NextButton ==
    LoadAttempt \/ SetupFinish \/ ButtonIsrAny \/ LoopLongPress \/ LoopButton

SpecButton == InitButton /\ [][NextButton]_vars

\* --------------------------------------------------------- setup() alone
\* the load attempts of a boot whose file system may not have settled
LoadAttemptUnsettled == LoadAttemptWith(BOOLEAN)

InitLoad == InitWith(LoadFiles)

NextLoad == LoadAttemptUnsettled \/ SetupFinish

\* setup() over the loader's show files
SpecLoad == InitLoad /\ [][NextLoad]_vars

\* ------------------------------------------------ a prop without a show
InitNoShow == InitWith({BadMagicFile})

\* the receiver whose show.bin has a wrong magic, under every input
SpecNoShow == InitNoShow /\ [][Next]_vars

\* ------------------------------------------- identity and setup mode
\* variant: the stored byte taken as it is
LoadPropID_Unchecked(id) == id

\* loadPropID(): the identity returned, which is also what EEPROM byte 0
\* holds afterwards (an identity out of range is replaced by 1 and saved)
LoadPropID(id) == IF id < 1 \/ id > TOTAL_PROPS THEN 1 ELSE id

\* tempPropID++; if (tempPropID > TOTAL_PROPS) tempPropID = 1;
NextPropID(id) == IF id + 1 > TOTAL_PROPS THEN 1 ELSE id + 1

\* setup() from reset to the call of loadShowFromFlashWithRetry(3): strip
\* cleared and shown, propID = loadPropID()
BootLoadPropID ==
    /\ pc = "boot"
    /\ propID' = LoadPropID(eeprom)
    /\ eeprom' = LoadPropID(eeprom)
    /\ txCount' = 1
    /\ pc' = "load"
    /\ UNCHANGED << prevComplete, effectVars, remoteVars, tempPropID, lastIsPressed, pressesPending, iterButton,
                    file, attempt, loadLog, showLoaded, showVars, isRGBW,
                    currentShowTime, isShowPlaying, radioInitialized, inTestMode,
                    inSetupMode, sincePacket, packetReceivedThisFrame, cur,
                    lastRenderedEffectType, frameDirty, stripIsOff, pixels, shown,
                    buttonPressFlag, animationStep, iterDelta, iterPacket,
                    iterBranch, selectedIndex, litFor >>

\* one pass of the while loop of handleSetupMode(): isPressed is the button
\* level, held whether millis() - pressStartTime > LONG_PRESS_MS (the press
\* began in an earlier pass); a release increments tempPropID, a held press
\* saves it, flashes the strip green three times and asks for the reboot
SetupPassWith(levels) ==
    /\ pc = "setupMode"
    /\ \E isPressed \in levels, held \in BOOLEAN :
          /\ held => (isPressed /\ lastIsPressed)
          /\ tempPropID' = (IF ~isPressed /\ lastIsPressed
                            THEN NextPropID(tempPropID) ELSE tempPropID)
          /\ IF held
             THEN /\ propID' = tempPropID
                  /\ eeprom' = tempPropID
                  /\ pixels' = Fill(Len(pixels), BLACK)
                  /\ shown' = Fill(Len(pixels), BLACK)
                  /\ txCount' = 6
                  /\ pc' = "saved"
                  /\ UNCHANGED lastIsPressed
             ELSE /\ lastIsPressed' = isPressed
                  /\ txCount' = 0
                  /\ UNCHANGED << propID, eeprom, pixels, shown, pc >>
    /\ UNCHANGED << prevComplete, effectVars, remoteVars, pressesPending, iterButton,
                    file, attempt, loadLog, showLoaded, showVars, isRGBW,
                    currentShowTime, isShowPlaying, radioInitialized, inTestMode,
                    inSetupMode, sincePacket, packetReceivedThisFrame, cur,
                    lastRenderedEffectType, frameDirty, stripIsOff,
                    buttonPressFlag, animationStep, iterDelta, iterPacket,
                    iterBranch, selectedIndex, litFor >>

SetupPass == SetupPassWith(BOOLEAN)

\* the passes of a user who keeps the button down from the long press on
SetupPassHeld == SetupPassWith({TRUE})

\* watchdog_reboot(0, 0, 100): the globals back at their initialisers, the
\* EEPROM and the flash kept
Reboot ==
    /\ pc = "saved"
    /\ pc' = "boot"
    /\ propID' = 1
    /\ attempt' = 1
    /\ loadLog' = <<>>
    /\ showLoaded' = FALSE
    /\ showSchedule' = <<>>
    /\ showLength' = 0
    /\ showEndTime' = 0
    /\ myConfig' = DefaultConfig
    /\ numLeds' = DEFAULT_NUM_LEDS
    /\ isRGBW' = FALSE
    /\ currentShowTime' = 0
    /\ isShowPlaying' = FALSE
    /\ radioInitialized' = FALSE
    /\ inTestMode' = FALSE
    /\ inSetupMode' = FALSE
    /\ sincePacket' = 0
    /\ packetReceivedThisFrame' = FALSE
    /\ cur' = InitialEffect
    /\ lastRenderedEffectType' = NO_EFFECT_RENDERED
    /\ frameDirty' = FALSE
    /\ stripIsOff' = TRUE
    /\ pixels' = Fill(DEFAULT_NUM_LEDS, BLACK)
    /\ shown' = Fill(DEFAULT_NUM_LEDS, BLACK)
    /\ buttonPressFlag' = FALSE
    /\ animationStep' = 0
    /\ iterDelta' = 0
    /\ iterPacket' = NoPacket
    /\ iterBranch' = "none"
    /\ selectedIndex' = -1
    /\ txCount' = 0
    /\ litFor' = 0
    /\ pressesPending' = 0
    /\ iterButton' = "up"
    /\ prevComplete' = FALSE
    /\ tempPropID' = 0
    /\ lastIsPressed' = FALSE
    /\ call' = NoCall
    /\ randState' = RAND_INITIAL
    /\ UNCHANGED << remoteVars, eeprom, file >>

\* the receiver from reset with any byte in the EEPROM
InitIdentity ==
    /\ file = ShowFile(<<>>)
    /\ eeprom \in 0..255
    /\ propID = 1
    /\ pc = "boot"
    /\ InitGlobals
    /\ InitRemote({NoCueFile})

NextIdentity ==
    BootLoadPropID \/ LoadAttempt \/ SetupFinish \/ LoopLongPress \/ SetupPass \/ Reboot

\* boot, long press, setup mode, save and reboot
SpecIdentity == InitIdentity /\ [][NextIdentity]_vars

\* ------------------------------------ a show with an effect out of range
\* a solid event followed, for prop 4, by an event whose effect byte is past
\* the last EffectType
UnknownEffectFile ==
    ShowFile(<< ShowEvent(2, 3, CMD_SOLID_COLOR, RED, 0, Mask({2, 3}, {})),
                ShowEvent(3, 4, CMD_BEYOND, GREEN, 0, Mask({3}, {})) >>)

InitUnknown == InitWith({UnknownEffectFile})

SpecUnknown == InitUnknown /\ [][Next]_vars

\* ------------------------------- a prop without a show, setup mode included
NextFatal == Next \/ SetupPassHeld \/ Reboot \/ BootLoadPropID

SpecFatal == InitNoShow /\ [][NextFatal]_vars

\* ------------------------------------------------- renderFrame() alone
\* the current-effect globals as checkSchedule() leaves them on selecting e
EffectOf(e) ==
    [type |-> e.effectType, start |-> e.startTime, duration |-> e.duration,
     color |-> e.color, color2 |-> e.color2, speed |-> e.speed, width |-> e.width]

\* what checkSchedule() can have left behind: an event of non-empty window,
\* or no event
ScheduledEffects ==
    { EffectOf(e) : e \in { x \in Events : x.duration > 0 } } \cup { InitialEffect }

\* the strip before the call: off; lit by an effect; black but not flagged
\* off; flagged off while the last transmitted frame was not black (a clear
\* that did not reach the strip)
StripStates(n, rgbw) ==
    LET lit == Fill(n, MakeColorFromPacked(rgbw, RED))
        black == Fill(n, BLACK)
    IN { [px |-> black, out |-> black, dirty |-> FALSE, off |-> TRUE, tx |-> 0],
         [px |-> lit, out |-> lit, dirty |-> FALSE, off |-> FALSE, tx |-> 0],
         [px |-> black, out |-> black, dirty |-> FALSE, off |-> FALSE, tx |-> 0],
         [px |-> black, out |-> lit, dirty |-> FALSE, off |-> TRUE, tx |-> 0] }

\* renderFrame() entered at any show-time with any effect the scheduler has
\* returned before
InitRender ==
    /\ file = ShowFile(<<>>)
    /\ propID \in PropIDs
    /\ pc = "render"
    /\ attempt = 1
    /\ loadLog = << [ready |-> TRUE, ok |-> TRUE] >>
    /\ showLoaded = TRUE
    /\ showSchedule = <<>>
    /\ showLength = 0
    /\ showEndTime = 0
    /\ myConfig = Lut[propID]
    /\ numLeds = Lut[propID].ledCount
    /\ isRGBW = (Lut[propID].ledType = LED_SK6812_RGBW)
    /\ currentShowTime \in 0..(Uint32Mod - 1)
    /\ isShowPlaying = TRUE
    /\ radioInitialized = TRUE
    /\ inTestMode = FALSE
    /\ inSetupMode = FALSE
    /\ sincePacket = 0
    /\ packetReceivedThisFrame = FALSE
    /\ cur \in ScheduledEffects
    /\ lastRenderedEffectType = NO_EFFECT_RENDERED
    /\ \E s \in StripStates(numLeds, isRGBW) :
          /\ pixels = s.px
          /\ shown = s.out
          /\ frameDirty = s.dirty
          /\ stripIsOff = s.off
    /\ buttonPressFlag = FALSE
    /\ animationStep = 0
    /\ iterDelta = 0
    /\ iterPacket = NoPacket
    /\ iterBranch = "none"
    /\ selectedIndex = -1
    /\ txCount = 0
    /\ litFor = 0
    /\ pressesPending = 0
    /\ iterButton = "up"
    /\ prevComplete = FALSE
    /\ eeprom = propID
    /\ tempPropID = 0
    /\ lastIsPressed = FALSE
    /\ call = NoCall
    /\ randState = RAND_INITIAL
    /\ InitRemote({NoCueFile})

\* one call of renderFrame()
RenderCall ==
    /\ pc = "render"
    /\ \E r \in {RenderFrame(cur, currentShowTime,
                              [px |-> pixels, out |-> shown, dirty |-> frameDirty,
                               off |-> stripIsOff, tx |-> 0], isRGBW)} :
          /\ cur' = r.cur
          /\ lastRenderedEffectType' = r.last
          /\ pixels' = r.strip.px
          /\ shown' = r.strip.out
          /\ frameDirty' = r.strip.dirty
          /\ stripIsOff' = r.strip.off
          /\ txCount' = r.strip.tx
    /\ pc' = "flush"
    /\ iterBranch' = "render"
    /\ UNCHANGED << prevComplete, effectVars, remoteVars, setupVars, pressesPending, iterButton,
                    file, propID, attempt, loadLog, showLoaded, showVars, isRGBW,
                    currentShowTime, isShowPlaying, radioInitialized, inTestMode,
                    inSetupMode, sincePacket, packetReceivedThisFrame,
                    buttonPressFlag, animationStep, iterDelta, iterPacket,
                    selectedIndex, litFor >>

\* the showIfDirty() that follows it in loop()
FlushCall ==
    /\ pc = "flush"
    /\ \E s \in {ShowIfDirty([px |-> pixels, out |-> shown, dirty |-> frameDirty,
                               off |-> stripIsOff, tx |-> txCount])} :
          /\ shown' = s.out
          /\ frameDirty' = s.dirty
          /\ txCount' = s.tx
    /\ pc' = "rendered"
    /\ UNCHANGED << prevComplete, effectVars, remoteVars, setupVars, pressesPending, iterButton,
                    file, propID, attempt, loadLog, showLoaded, showVars, isRGBW,
                    currentShowTime, isShowPlaying, radioInitialized, inTestMode,
                    inSetupMode, sincePacket, packetReceivedThisFrame, cur,
                    lastRenderedEffectType, stripIsOff, pixels, buttonPressFlag,
                    animationStep, iterDelta, iterPacket, iterBranch,
                    selectedIndex, litFor >>

NextRender == RenderCall \/ FlushCall

SpecRender == InitRender /\ [][NextRender]_vars


\* ================================================================== remote
\* loadCuesFromFlash(): the return value and cueTimes[] after the call
LoadCuesFromFlash(f, old) ==
    IF ~f.exists THEN [ok |-> FALSE, cueTimes |-> old]
    ELSE IF f.size < 32 THEN [ok |-> FALSE, cueTimes |-> old]
    ELSE IF f.magic # CUE_MAGIC THEN [ok |-> FALSE, cueTimes |-> old]
    ELSE [ok |-> TRUE, cueTimes |-> f.times]

\* setup() of the remote: cuesLoaded = loadCuesFromFlash()
RemoteSetup ==
    /\ remotePc = "setup"
    /\ \E r \in {LoadCuesFromFlash(cueFile, cueTimes)} :
          /\ cuesLoaded' = r.ok
          /\ cueTimes' = r.cueTimes
    /\ remotePc' = "loop"
    /\ UNCHANGED << effectVars, receiverVars, cueFile, masterTime, isPlaying, packetCount,
                    activeCue, lastButtonState, sinceDebounce, sinceTx,
                    sentPacket, iterAccepted, stoppedByButton >>

\* read == LOW && last == HIGH && (now - debounceTime > 200)
Accepts(read, last, since) == read = "LOW" /\ last = "HIGH" /\ since > DebounceScaled

\* variant: Stop leaves masterTime where it is
OnStop_KeepTime(st) == [st EXCEPT !.isPlaying = FALSE, !.activeCue = 0]

\* isPlaying = false; masterTime = 0; activeCue = 0;
OnStop(st) == [st EXCEPT !.isPlaying = FALSE, !.masterTime = 0, !.activeCue = 0]

\* isPlaying = !isPlaying;
OnPlay(st) == [st EXCEPT !.isPlaying = ~st.isPlaying]

\* variant: the cue taken whether or not it is configured
OnCue_AlwaysJump(st, i, times) ==
    [st EXCEPT !.activeCue = i, !.isPlaying = TRUE, !.masterTime = times[i]]

\* if (cueTimes[i] != CUE_UNUSED) { activeCue = i + 1; isPlaying = true;
\* masterTime = cueTimes[i]; }
OnCue(st, i, times) ==
    IF times[i] # CUE_UNUSED
    THEN [st EXCEPT !.activeCue = i, !.isPlaying = TRUE, !.masterTime = times[i]]
    ELSE st

\* the six button blocks of loop() from block k on, in program order; st
\* holds masterTime, isPlaying, activeCue, now - debounceTime (since) and the
\* button whose press was accepted
RECURSIVE HandleButtons(_, _, _, _, _)
HandleButtons(st, k, reads, last, times) ==
    IF k > Len(RemoteButtons) THEN st
    ELSE LET b == RemoteButtons[k]
             st1 == IF ~Accepts(reads[k], last[k], st.since) THEN st
                    ELSE [(CASE b = "stop" -> OnStop(st)
                             [] b = "play" -> OnPlay(st)
                             [] OTHER -> OnCue(st, CueOf(b), times))
                            EXCEPT !.since = 0, !.accepted = b]
         IN HandleButtons(st1, k + 1, reads, last, times)

\* the button levels of one iteration with the buttons in S down
Pressed(S) == [k \in 1..6 |-> IF k \in S THEN "LOW" ELSE "HIGH"]

\* no button, each button alone, and Stop with Play, cue A with cue C
RemoteReads ==
    { Pressed(S) : S \in { {}, {1}, {2}, {3}, {4}, {5}, {6}, {1, 2}, {3, 5} } }

\* loop() of the remote: delta is now - lastLoopTime, reads the six
\* digitalRead() results
RemoteLoop ==
    /\ remotePc = "loop"
    /\ \E delta \in 0..MaxDelta, reads \in RemoteReads :
          \E st \in {HandleButtons(
                        [masterTime |-> IF isPlaying
                                        THEN (masterTime + delta) % Uint32Mod
                                        ELSE masterTime,
                         isPlaying |-> isPlaying, activeCue |-> activeCue,
                         since |-> Min(sinceDebounce + delta, DebounceCap),
                         accepted |-> "none"],
                        1, reads, lastButtonState, cueTimes)} :
             LET broadcast == Min(sinceTx + delta, TxCap) > TxIntervalScaled IN
             /\ masterTime' = st.masterTime
             /\ isPlaying' = st.isPlaying
             /\ activeCue' = st.activeCue
             /\ sinceDebounce' = st.since
             /\ iterAccepted' = st.accepted
             /\ lastButtonState' = reads
             /\ stoppedByButton' = (CASE st.accepted = "stop" -> TRUE
                                      [] st.accepted = "none" -> stoppedByButton
                                      [] OTHER -> FALSE)
             /\ sentPacket' = (IF broadcast
                               THEN [sent |-> TRUE, packetCounter |-> packetCount,
                                     masterTime |-> st.masterTime,
                                     state |-> IF st.isPlaying THEN 1 ELSE 0]
                               ELSE NoPacketSent)
             /\ packetCount' = (IF broadcast THEN (packetCount + 1) % PacketCountMod
                                ELSE packetCount)
             /\ sinceTx' = (IF broadcast THEN 0 ELSE Min(sinceTx + delta, TxCap))
    /\ UNCHANGED << effectVars, receiverVars, cueFile, remotePc, cueTimes, cuesLoaded >>

\* the remote alone, the receiver switched off: its globals as initialised,
\* no pixel buffer, no frame on the strip
InitRemoteAlone ==
    /\ file = AbsentFile
    /\ propID = 1
    /\ eeprom = 1
    /\ pc = "off"
    /\ attempt = 1
    /\ loadLog = <<>>
    /\ showLoaded = FALSE
    /\ showSchedule = <<>>
    /\ showLength = 0
    /\ showEndTime = 0
    /\ myConfig = DefaultConfig
    /\ numLeds = DEFAULT_NUM_LEDS
    /\ isRGBW = FALSE
    /\ currentShowTime = 0
    /\ isShowPlaying = FALSE
    /\ radioInitialized = FALSE
    /\ inTestMode = FALSE
    /\ inSetupMode = FALSE
    /\ sincePacket = 0
    /\ packetReceivedThisFrame = FALSE
    /\ cur = InitialEffect
    /\ lastRenderedEffectType = NO_EFFECT_RENDERED
    /\ frameDirty = FALSE
    /\ stripIsOff = TRUE
    /\ pixels = <<>>
    /\ shown = <<>>
    /\ buttonPressFlag = FALSE
    /\ animationStep = 0
    /\ iterDelta = 0
    /\ iterPacket = NoPacket
    /\ iterBranch = "none"
    /\ selectedIndex = -1
    /\ txCount = 0
    /\ litFor = 0
    /\ pressesPending = 0
    /\ iterButton = "up"
    /\ prevComplete = FALSE
    /\ tempPropID = 0
    /\ lastIsPressed = FALSE
    /\ call = NoCall
    /\ randState = RAND_INITIAL
    /\ InitRemote(CueFiles)

NextRemote == RemoteSetup \/ RemoteLoop

SpecRemote == InitRemoteAlone /\ [][NextRemote]_vars

\* ------------------------------- makeColor() and the effect renderers alone
\* the byte values of a colour channel, the strip lengths, the speed bytes
\* and the local times the calls are made with
LedTypes == LED_WS2812B..LED_WS2815

Channels == {0, 80, 128, 255}

StripLengths == {5, 6, 150}

SpeedBytes == {0, 50, 255}

LocalTimes ==
    { 50 * k + d : k \in 0..MaxTick, d \in {0, 49} }
    \cup { 999, 1000, 1050, 1999, 2000, 2001, 65535, 65536, 65537 }

\* renderRainbowChaseShow(): period. The float quotient 2000.0f / (speed /
\* 50.0f) cut to uint32_t is 100000 / speed in integers for every speed byte
\* 1..255 (both float divisions round to the nearest float, and the
\* nearest float of a quotient this close to an integer below 2^24 is the
\* integer itself)
RainbowPeriod(speed) ==
    LET period == IF speed = 0 THEN 2000 ELSE 100000 \div speed
    IN IF period = 0 THEN 1 ELSE period

\* uint16_t hueOffset = (localTime * 65536) / period; the product is a
\* uint32_t, so it keeps the low 16 bits of localTime only. Computed in two
\* steps of 8 bits: x * 65536 / p = ((x * 256 / p) * 256) + ((x * 256 % p) * 256 / p)
HueOffset(localTime, period) ==
    LET low == localTime % 65536
        q == (low * 256) \div period
        r == (low * 256) % period
    IN (q * 256 + (r * 256) \div period) % 65536

\* the frame of renderRainbowChaseShow(): pixel i carries
\* gamma32(ColorHSV(pixelHue)), kept as the 16-bit hue ColorHSV() is given
RenderRainbowChaseShow(n, localTime, speed) ==
    LET hueOffset == HueOffset(localTime, RainbowPeriod(speed))
    IN [i \in 1..n |-> <<-2, (hueOffset + ((i - 1) * 65536) \div n) % 65536, 0, 0>>]

\* srand() and rand(): the C library's generator is not part of the
\* repository; a linear congruential generator over RandMod states stands
\* for it. srand() sets the state, rand() steps it and returns it
Srand(seed) == seed % RandMod

RandNext(state) == (state * 21 + 1) % RandMod

\* variant: the generator not seeded from the tick
GlitchSeed_Unseeded(localTime, state) == state

\* srand(localTime / 50) of renderGlitch()
GlitchSeed(localTime, state) == Srand(localTime \div 50)

\* rand() % 10 > 7
GlitchPicksSecond(roll) == roll % 10 > 7

\* renderGlitch(): the frame, the value rand() returned and the state the
\* generator is left in
RenderGlitch(n, localTime, c, c2, state) ==
    LET roll == RandNext(GlitchSeed(localTime, state))
    IN [px |-> IF GlitchPicksSecond(roll) THEN Fill(n, c2) ELSE Fill(n, c),
        roll |-> roll, rand |-> roll]

\* renderChase() and renderMeteor(): speed and widthRatio as fractions.
\* speed = 2.0f or byte / 50.0f, as a count of fiftieths
SpeedFiftieths(speedByte) == IF speedByte = 0 THEN 100 ELSE speedByte

\* posInCycle * numPixels, cut to int: effectiveTime = localTime / 1000 *
\* speed is localTime * fiftieths / 50000, its fractional part is taken and
\* scaled to the strip. The position is taken in exact arithmetic: the
\* rounding of the float operations is not modelled
CyclePosition(n, localTime, speedByte) ==
    (((localTime * SpeedFiftieths(speedByte)) % 50000) * n) \div 50000

\* max(1, (int)(numPixels * widthRatio)) of renderChase(): widthRatio is 0.1f
\* or byte / 255.0f. 0.1f lies above 1/10 by less than 2^-27, so the product
\* cut to int is numPixels / 10
ChaseWidth(n, widthByte) ==
    Max(1, IF widthByte = 0 THEN n \div 10 ELSE (n * widthByte) \div 255)

\* max(1, (int)(numPixels * widthRatio)) of renderMeteor(): widthRatio is
\* 0.33f or byte / 255.0f. 0.33f lies above 33/100 by less than 2^-25, so
\* the product cut to int is numPixels * 33 / 100
MeteorTailLen(n, widthByte) ==
    Max(1, IF widthByte = 0 THEN (n * 33) \div 100 ELSE (n * widthByte) \div 255)

\* the frame of renderChase(): strip.clear(), then color where
\* abs(i - center) < width
RenderChase(n, localTime, c, speedByte, widthByte) ==
    LET center == CyclePosition(n, localTime, speedByte)
        width == ChaseWidth(n, widthByte)
    IN [i \in 1..n |-> IF Abs((i - 1) - center) < width THEN c ELSE BLACK]

\* the frame of renderMeteor(): strip.clear(), then dimColor(color, 1.0 -
\* decay) where i <= head && i > head - tailLen; the dimmed colour is kept as
\* the colour, the distance head - i and the tail length it is computed from
RenderMeteor(n, localTime, c, speedByte, widthByte) ==
    LET head == CyclePosition(n, localTime, speedByte)
        tailLen == MeteorTailLen(n, widthByte)
    IN [i \in 1..n |-> IF (i - 1) <= head /\ (i - 1) > head - tailLen
                       THEN <<-3, c, head - (i - 1), tailLen>> ELSE BLACK]

\* the fixed-parameter renderers the parametric ones replaced: float speed =
\* 2.0; pos = ((localTime * (int)speed) % 1000) / 1000.0f, scaled to the strip
LegacyPosition(n, localTime) == (((localTime * 2) % 1000) * n) \div 1000

\* renderChase() before the speed and width bytes: width = numPixels / 10
LegacyRenderChase(n, localTime, c) ==
    LET center == LegacyPosition(n, localTime)
        width == n \div 10
    IN [i \in 1..n |-> IF Abs((i - 1) - center) < width THEN c ELSE BLACK]

\* renderMeteor() before the speed and width bytes: tailLen = numPixels / 3
LegacyRenderMeteor(n, localTime, c) ==
    LET head == LegacyPosition(n, localTime)
        tailLen == n \div 3
    IN [i \in 1..n |-> IF (i - 1) <= head /\ (i - 1) > head - tailLen
                       THEN <<-3, c, head - (i - 1), tailLen>> ELSE BLACK]

\* the events whose renderer is called: rainbow chase at each speed byte,
\* chase, meteor and glitch with both bytes 0
EffectsAlone ==
    { [type |-> CMD_RAINBOW_CHASE, start |-> 0, duration |-> 0, color |-> RED,
       color2 |-> GREEN, speed |-> sp, width |-> 0] : sp \in SpeedBytes }
    \cup { [type |-> fx, start |-> 0, duration |-> 0, color |-> RED,
            color2 |-> GREEN, speed |-> 0, width |-> 0] :
              fx \in {CMD_CHASE, CMD_METEOR, CMD_GLITCH} }

\* the receiver after setup() with a strip of any type and length, an event
\* selected, and the generator as an earlier sparkle or fire frame left it
InitEffectsWith(effects) ==
    /\ file = ShowFile(<<>>)
    /\ propID = 1
    /\ eeprom = 1
    /\ pc = "effects"
    /\ attempt = 1
    /\ loadLog = << [ready |-> TRUE, ok |-> TRUE] >>
    /\ showLoaded = TRUE
    /\ showSchedule = <<>>
    /\ showLength = 0
    /\ showEndTime = 0
    /\ \E type \in LedTypes, n \in StripLengths :
          /\ myConfig = PropConfig(n, type, COLOR_GRB, DEFAULT_BRIGHTNESS)
          /\ numLeds = n
          /\ isRGBW = (type = LED_SK6812_RGBW)
          /\ pixels = Fill(n, BLACK)
          /\ shown = Fill(n, BLACK)
    /\ currentShowTime = 0
    /\ isShowPlaying = TRUE
    /\ radioInitialized = TRUE
    /\ inTestMode = FALSE
    /\ inSetupMode = FALSE
    /\ sincePacket = 0
    /\ packetReceivedThisFrame = FALSE
    /\ cur \in effects
    /\ lastRenderedEffectType = NO_EFFECT_RENDERED
    /\ frameDirty = FALSE
    /\ stripIsOff = TRUE
    /\ buttonPressFlag = FALSE
    /\ animationStep = 0
    /\ iterDelta = 0
    /\ iterPacket = NoPacket
    /\ iterBranch = "none"
    /\ selectedIndex = -1
    /\ txCount = 0
    /\ litFor = 0
    /\ pressesPending = 0
    /\ iterButton = "up"
    /\ prevComplete = FALSE
    /\ tempPropID = 0
    /\ lastIsPressed = FALSE
    /\ call = NoCall
    /\ randState \in {RAND_INITIAL, 7}
    /\ InitRemote({NoCueFile})

InitEffects == InitEffectsWith(EffectsAlone)

\* no event selected
InitColor == InitEffectsWith({InitialEffect})

\* what a renderer called on its own leaves alone
EffectFrameUnchanged ==
    UNCHANGED << prevComplete, remoteVars, setupVars, pressesPending, iterButton, file, propID,
                 pc, attempt, loadLog, showLoaded, showVars, isRGBW,
                 currentShowTime, isShowPlaying, radioInitialized, inTestMode,
                 inSetupMode, sincePacket, packetReceivedThisFrame, cur,
                 lastRenderedEffectType, shown, buttonPressFlag, animationStep,
                 iterDelta, iterPacket, iterBranch, selectedIndex, txCount,
                 litFor >>

\* makeColor(r, g, b)
MakeColorCall ==
    /\ pc = "effects"
    /\ \E r \in Channels, g \in Channels, b \in Channels :
          call' = [fn |-> "makeColor", r |-> r, g |-> g, b |-> b,
                   out |-> MakeColor(isRGBW, r, g, b)]
    /\ UNCHANGED << randState, pixels, frameDirty, stripIsOff >>
    /\ EffectFrameUnchanged

\* renderRainbowChaseShow(localTime)
RainbowChaseCall ==
    /\ pc = "effects"
    /\ cur.type = CMD_RAINBOW_CHASE
    /\ \E localTime \in LocalTimes :
          /\ call' = [fn |-> "rainbowChase", localTime |-> localTime,
                      period |-> RainbowPeriod(cur.speed),
                      hueOffset |-> HueOffset(localTime, RainbowPeriod(cur.speed))]
          /\ pixels' = RenderRainbowChaseShow(numLeds, localTime, cur.speed)
    /\ frameDirty' = TRUE
    /\ stripIsOff' = FALSE
    /\ UNCHANGED randState
    /\ EffectFrameUnchanged

\* renderGlitch(localTime, c, c2)
GlitchCall ==
    /\ pc = "effects"
    /\ cur.type = CMD_GLITCH
    /\ \E localTime \in LocalTimes :
          \E r \in {RenderGlitch(numLeds, localTime,
                                 MakeColorFromPacked(isRGBW, cur.color),
                                 MakeColorFromPacked(isRGBW, cur.color2), randState)} :
             /\ call' = [fn |-> "glitch", localTime |-> localTime, roll |-> r.roll]
             /\ pixels' = r.px
             /\ randState' = r.rand
    /\ frameDirty' = TRUE
    /\ stripIsOff' = FALSE
    /\ EffectFrameUnchanged

\* renderChase(localTime, c)
ChaseCall ==
    /\ pc = "effects"
    /\ cur.type = CMD_CHASE
    /\ \E localTime \in LocalTimes :
          /\ call' = [fn |-> "chase", localTime |-> localTime]
          /\ pixels' = RenderChase(numLeds, localTime,
                                   MakeColorFromPacked(isRGBW, cur.color),
                                   cur.speed, cur.width)
    /\ frameDirty' = TRUE
    /\ stripIsOff' = FALSE
    /\ UNCHANGED randState
    /\ EffectFrameUnchanged

\* renderMeteor(localTime, c)
MeteorCall ==
    /\ pc = "effects"
    /\ cur.type = CMD_METEOR
    /\ \E localTime \in LocalTimes :
          /\ call' = [fn |-> "meteor", localTime |-> localTime]
          /\ pixels' = RenderMeteor(numLeds, localTime,
                                    MakeColorFromPacked(isRGBW, cur.color),
                                    cur.speed, cur.width)
    /\ frameDirty' = TRUE
    /\ stripIsOff' = FALSE
    /\ UNCHANGED randState
    /\ EffectFrameUnchanged

NextEffects == RainbowChaseCall \/ GlitchCall \/ ChaseCall \/ MeteorCall

SpecEffects == InitEffects /\ [][NextEffects]_vars

NextColor == MakeColorCall

\* makeColor() with every input of the model
SpecColor == InitColor /\ [][NextColor]_vars

\* ================================================================== claims
\* the notions the claims are stated in, written out without the operators
\* of the scheduler: the mask bit of prop P and the window [start, start +
\* duration) over the integers
HasPropBit(e, P) == ((P - 1) % 32) \in e.targetMask[(P - 1) \div 32]

WindowHolds(e, t) == e.startTime <= t /\ t < e.startTime + e.duration

\* the 0-based indices of the loaded events that target this prop and whose
\* window holds the current show-time
Candidates ==
    { i \in 0..(showLength - 1) :
        HasPropBit(showSchedule[i + 1], propID)
        /\ WindowHolds(showSchedule[i + 1], currentShowTime) }

\* the last loop() iteration ran checkSchedule() and renderFrame()
RanSchedule == iterBranch = "show"

\* the last loop() iteration had the show playing outside test mode
RanPlaying == iterBranch \in {"show", "complete"}

AllBlack(frame) == \A i \in 1..Len(frame) : frame[i] = BLACK

\* C1: after checkSchedule() ran with showLength > 0, the selection is either
\* none (effect OFF) or a single loaded event e from which the current effect
\* was copied, with startTime <= t < startTime + duration and bit (P-1) % 32
\* of targetMask[(P-1) / 32] set.
C1_SelectedEventInWindowAndTargeted ==
    (RanSchedule /\ showLength > 0) =>
        /\ selectedIndex \in -1..(showLength - 1)
        /\ selectedIndex = -1 => cur.type = CMD_OFF
        /\ selectedIndex >= 0 =>
              LET e == showSchedule[selectedIndex + 1] IN
              /\ cur.type = e.effectType
              /\ cur.start = e.startTime
              /\ cur.duration = e.duration
              /\ cur.color = e.color
              /\ cur.color2 = e.color2
              /\ WindowHolds(e, currentShowTime)
              /\ HasPropBit(e, propID)

\* C1 witness: the scheduler selected an event of a show that also holds an
\* event not targeting this prop
C1_Witness ==
    /\ RanSchedule
    /\ showLength = 2
    /\ selectedIndex = 1
    /\ ~HasPropBit(showSchedule[1], propID)
    /\ WindowHolds(showSchedule[1], currentShowTime)

\* C5: at the end of an iteration that received a packet, currentShowTime is
\* the packet's masterTime and isShowPlaying is (state == 1).
C5_PacketIsAuthoritative ==
    packetReceivedThisFrame =>
        /\ currentShowTime = iterPacket.masterTime
        /\ isShowPlaying = (iterPacket.state = 1)

\* C5 witness: a playing packet arrived in an iteration whose delta is not 0
\* and the show branch ran
C5_Witness ==
    /\ packetReceivedThisFrame
    /\ iterPacket.state = 1
    /\ iterDelta > 0
    /\ RanPlaying
    /\ currentShowTime = iterPacket.masterTime

\* C6 as claimed: every iteration with the show playing and no packet adds
\* the iteration's delta to currentShowTime.
C6_AsClaimed ==
    [][(Loop /\ isShowPlaying' /\ ~packetReceivedThisFrame')
          => currentShowTime' = (currentShowTime + iterDelta') % Uint32Mod]_vars

\* C6 amended: every iteration with the show playing, the receiver not in
\* test mode and no packet adds the iteration's delta to currentShowTime
\* (modulo 2^32).
C6_AdvanceOutsideTestMode ==
    [][(Loop /\ isShowPlaying' /\ ~inTestMode' /\ ~packetReceivedThisFrame')
          => currentShowTime' = (currentShowTime + iterDelta') % Uint32Mod]_vars

\* C6 witness: a playing iteration without a packet and with a delta > 0
C6_Witness ==
    /\ RanPlaying
    /\ isShowPlaying
    /\ ~packetReceivedThisFrame
    /\ iterDelta > 0
    /\ currentShowTime > 3

\* C7: while isShowPlaying is false, an iteration without a packet leaves
\* currentShowTime unchanged.
C7_StoppedClockHolds ==
    [][(Loop /\ ~isShowPlaying /\ ~packetReceivedThisFrame')
          => currentShowTime' = currentShowTime]_vars

\* C7 witness: a standby iteration without a packet, with a delta > 0, at a
\* show-time other than 0
C7_Witness ==
    /\ iterBranch = "standby"
    /\ ~packetReceivedThisFrame
    /\ iterDelta > 0
    /\ currentShowTime > 0

\* the smallest element of a non-empty set of integers
Least(S) == CHOOSE x \in S : \A y \in S : x <= y

\* the largest element of a non-empty set of integers
Greatest(S) == CHOOSE x \in S : \A y \in S : x >= y

\* C2 as claimed: when several loaded events target this prop and their
\* windows all hold the current show-time, checkSchedule() selects the one of
\* smallest index.
C2_AsClaimed ==
    (RanSchedule /\ Cardinality(Candidates) >= 2) =>
        selectedIndex = Least(Candidates)

\* C3 as claimed: for an event targeting this prop (of non-empty window),
\* t == startTime selects an event no later than it in file order and
\* t == startTime + duration does not select it; and whenever some loaded
\* event targeting this prop has startTime <= t < startTime + duration, an
\* event is selected.
C3_AsClaimed ==
    RanSchedule =>
        /\ Candidates # {} => selectedIndex >= 0
        /\ \A i \in 0..(showLength - 1) :
              LET e == showSchedule[i + 1] IN
              (HasPropBit(e, propID) /\ e.duration > 0) =>
                  /\ currentShowTime = e.startTime => selectedIndex \in 0..i
                  /\ currentShowTime = e.startTime + e.duration => selectedIndex # i

\* the frame of event e's effect on this strip (the effect kinds of the model
\* files: solid colour, OFF, undefined)
EffectFrame(e) ==
    IF e.effectType = CMD_SOLID_COLOR
    THEN Fill(Len(pixels), MakeColorFromPacked(isRGBW, e.color))
    ELSE Fill(Len(pixels), BLACK)

\* C4 as claimed: after an iteration with the show playing outside test mode,
\* the strip shows the effect of the first event that targets this prop and
\* whose window holds the show-time, if there is one; otherwise every pixel is
\* black and the black frame was transmitted in that iteration.
C4_AsClaimed ==
    RanPlaying =>
        IF Candidates # {}
        THEN /\ pixels = EffectFrame(showSchedule[Least(Candidates) + 1])
             /\ shown = pixels
        ELSE /\ AllBlack(pixels)
             /\ shown = pixels
             /\ txCount > 0

\* the latest end-time startTime + duration of the loaded events targeting
\* this prop, 0 when there is none
LatestEnd ==
    LET ends == { showSchedule[i].startTime + showSchedule[i].duration :
                    i \in { j \in 1..showLength : HasPropBit(showSchedule[j], propID) } }
    IN IF ends = {} THEN 0 ELSE Greatest(ends)

\* C8 as claimed: in every iteration without a packet isShowPlaying keeps its
\* value and, if playing, currentShowTime advances by the loop delta.
C8_AsClaimed ==
    [][(Loop /\ ~packetReceivedThisFrame')
          => /\ isShowPlaying' = isShowPlaying
             /\ isShowPlaying =>
                   currentShowTime' = (currentShowTime + iterDelta') % Uint32Mod]_vars

\* C8 amended: in every iteration without a packet, whatever time has passed
\* since the last packet, isShowPlaying keeps its value; currentShowTime
\* advances by the loop delta (modulo 2^32) if the show is playing outside
\* test mode and keeps its value otherwise.
C8_SignalLossKeepsClock ==
    [][(Loop /\ ~packetReceivedThisFrame')
          => /\ isShowPlaying' = isShowPlaying
             /\ (isShowPlaying /\ ~inTestMode') =>
                   currentShowTime' = (currentShowTime + iterDelta') % Uint32Mod
             /\ (~isShowPlaying \/ inTestMode') =>
                   currentShowTime' = currentShowTime]_vars

\* C8 witness: the show free-runs after the packet timeout has elapsed
C8_Witness ==
    /\ sincePacket > PACKET_TIMEOUT_MS
    /\ NoSignal
    /\ ~packetReceivedThisFrame
    /\ isShowPlaying
    /\ RanPlaying
    /\ iterDelta > 0
    /\ currentShowTime > 0

\* C9 as claimed: in every iteration with the show playing outside test mode
\* and currentShowTime greater than the latest end-time of the events
\* targeting this prop, the strip is cleared and transmitted and
\* checkSchedule()/renderFrame() are not invoked.
C9_AsClaimed ==
    (RanPlaying /\ currentShowTime > LatestEnd) =>
        /\ iterBranch = "complete"
        /\ AllBlack(pixels)
        /\ shown = pixels
        /\ txCount > 0

\* C9 amended: in every iteration with the show playing outside test mode,
\* showEndTime > 0 and currentShowTime > showEndTime, the strip is cleared and
\* transmitted and checkSchedule()/renderFrame() are not invoked (the current
\* effect is left as it was).
C9_ShowCompleteForcesOff ==
    [][(Loop /\ iterBranch' \in {"show", "complete"}
             /\ showEndTime > 0 /\ currentShowTime' > showEndTime)
          => /\ iterBranch' = "complete"
             /\ AllBlack(pixels')
             /\ shown' = pixels'
             /\ txCount' > 0
             /\ stripIsOff'
             /\ ~frameDirty'
             /\ cur' = cur
             /\ selectedIndex' = -1]_vars

\* C9 witness: show complete while an event is still the current effect
C9_Witness ==
    /\ iterBranch = "complete"
    /\ showEndTime > 0
    /\ currentShowTime > showEndTime
    /\ cur.type # CMD_OFF
    /\ AllBlack(shown)

\* C10 as claimed: after a successful load showEndTime is the maximum of
\* startTime + duration over the loaded events targeting this prop, 0 when
\* there is none.
C10_AsClaimed ==
    showLoaded => showEndTime = LatestEnd

\* ------------------------------------------------------------ loader claims
\* the file the last loadShowFromFlash() call found on the flash
LastSeen == IF loadLog[Len(loadLog)].ready THEN file ELSE AbsentFile

\* the file is present with a complete header, the right magic and a complete
\* configuration-table entry for this prop
WellFormed(f) ==
    f.exists /\ f.headerLen = 16 /\ f.magic = SHOW_MAGIC /\ f.lutEntries >= propID

\* C11 as claimed: load() accepts a file of version 1, 2 or 3 and fails for
\* every other version value.
C11_AsClaimed ==
    (loadLog # <<>> /\ WellFormed(LastSeen)) =>
        (showLoaded <=> LastSeen.version \in {1, 2, 3})

\* C11 amended: loadShowFromFlash() accepts a file whose header version is 3,
\* taking this prop's PropConfig from the table entry of its identity, and
\* fails for every other version value, versions 1 and 2 included.
C11_OnlyVersion3Accepted ==
    (loadLog # <<>> /\ WellFormed(LastSeen)) =>
        /\ showLoaded <=> LastSeen.version = 3
        /\ showLoaded =>
              /\ myConfig = file.lut[propID]
              /\ numLeds = file.lut[propID].ledCount
        /\ ~showLoaded =>
              /\ myConfig = DefaultConfig
              /\ numLeds = DEFAULT_NUM_LEDS
              /\ showLength = 0

\* C11 witness: a well-formed version-2 file was read and rejected three times
C11_Witness ==
    /\ pc = "configure"
    /\ WellFormed(file)
    /\ file.version = 2
    /\ Len(loadLog) = LOAD_ATTEMPTS
    /\ \A i \in 1..Len(loadLog) : loadLog[i].ready
    /\ ~showLoaded

\* C12: loadShowFromFlash() returns false for each of: show.bin absent, header
\* shorter than 16 bytes, magic other than 0x5049434F, unsupported version,
\* short read of this prop's configuration-table entry; true in every other
\* case (a short read of an event included).
C12_LoadFailsOnListedDefectsOnly ==
    loadLog # <<>> =>
        LET f == LastSeen
            defect == \/ ~f.exists
                      \/ f.headerLen < 16
                      \/ f.magic # 1346978639
                      \/ f.version # 3
                      \/ f.lutEntries < propID
        IN loadLog[Len(loadLog)].ok <=> ~defect

\* C12 witness: a load that succeeded although the event list ends before the
\* header's eventCount
C12_Witness ==
    /\ pc = "configure"
    /\ showLoaded
    /\ file.eventCount > Len(file.events)
    /\ showLength < file.eventCount

\* C13: after a successful load showLength is min(header.eventCount,
\* MAX_EVENTS, number of complete event records in the file), the loaded
\* events are the first showLength records of the file, and showLength never
\* exceeds MAX_EVENTS.
C13_ShowLengthClamped ==
    /\ showLength <= MAX_EVENTS
    /\ Len(showSchedule) = showLength
    /\ showLoaded =>
          /\ showLength <= file.eventCount
          /\ showLength <= Len(file.events)
          /\ showLength \in {file.eventCount, MAX_EVENTS, Len(file.events)}
          /\ \A i \in 1..showLength : showSchedule[i] = file.events[i]

\* C13 witness: a file holding more than MAX_EVENTS records, and fewer than
\* its header counts, loaded with MAX_EVENTS events
C13_Witness ==
    /\ showLoaded
    /\ Len(file.events) > MAX_EVENTS
    /\ file.eventCount > Len(file.events)
    /\ showLength = MAX_EVENTS

\* C14 as claimed: with a wrong magic every load attempt fails, showLength
\* stays 0 and after every loop iteration the strip is black.
C14_AsClaimed ==
    file.magic # SHOW_MAGIC =>
        /\ \A i \in 1..Len(loadLog) : ~loadLog[i].ok
        /\ showLength = 0
        /\ (pc = "loop" /\ iterBranch # "none") =>
              (~IsLit(pixels) /\ shown = pixels)

\* C14 amended: with a wrong magic every load attempt fails, showLength
\* stays 0 and after every loop iteration outside test mode the strip is
\* black and the black frame is the one last transmitted, whatever packets
\* arrived.
C14_NoShowRendersOff ==
    file.magic # SHOW_MAGIC =>
        /\ \A i \in 1..Len(loadLog) : ~loadLog[i].ok
        /\ showLength = 0
        /\ showEndTime = 0
        /\ (pc = "loop" /\ iterBranch \notin {"none", "test"}) =>
              (~IsLit(pixels) /\ shown = pixels /\ stripIsOff)
        /\ iterBranch \in {"show", "standby"} => txCount > 0

\* C14 witness: a playing packet at a show-time other than 0 reached the prop
\* whose three load attempts failed on the magic
C14_Witness ==
    /\ file.magic # SHOW_MAGIC
    /\ Len(loadLog) = LOAD_ATTEMPTS
    /\ iterBranch = "show"
    /\ packetReceivedThisFrame
    /\ currentShowTime > 0
    /\ ~IsLit(shown)

\* C15: loadShowFromFlashWithRetry(3) makes at most 3 attempts, makes none
\* after a successful one, returns true on the first success and false exactly
\* when all 3 attempts failed.
C15_RetryBoundedStopsOnSuccess ==
    /\ Len(loadLog) <= LOAD_ATTEMPTS
    /\ Len(loadLog) = IF pc = "load" THEN attempt - 1 ELSE attempt
    /\ \A i \in 1..(Len(loadLog) - 1) : ~loadLog[i].ok
    /\ pc = "load" => \A i \in 1..Len(loadLog) : ~loadLog[i].ok
    /\ pc # "load" =>
          /\ showLoaded <=> loadLog[Len(loadLog)].ok
          /\ ~showLoaded <=>
                (Len(loadLog) = LOAD_ATTEMPTS /\ \A i \in 1..LOAD_ATTEMPTS : ~loadLog[i].ok)

\* C15 witness: the second attempt succeeded and ended the loading
C15_Witness ==
    /\ pc = "configure"
    /\ showLoaded
    /\ Len(loadLog) = 2
    /\ ~loadLog[1].ok

\* the file has a complete header with a wrong magic or a version other than 3
FormatError(f) ==
    f.exists /\ f.headerLen = 16 /\ (f.magic # SHOW_MAGIC \/ f.version # 3)

\* C16 as claimed: no load attempt follows one that failed with a format
\* error (bad magic or unsupported version).
C16_AsClaimed ==
    \A i \in 1..Len(loadLog) :
        (loadLog[i].ready /\ FormatError(file)) => i = Len(loadLog)

\* C16 amended: a load that fails with a format error (bad magic or
\* unsupported version) is retried like any other failed load: loading ends
\* only after all 3 attempts have failed.
C16_FormatErrorRetried ==
    (pc # "load" /\ FormatError(file)) =>
        /\ Len(loadLog) = LOAD_ATTEMPTS
        /\ \A i \in 1..Len(loadLog) : ~loadLog[i].ok
        /\ ~showLoaded

\* C16 witness: a file of wrong magic that was read at each of three attempts
C16_Witness ==
    /\ pc = "configure"
    /\ file.exists
    /\ file.headerLen = 16
    /\ file.magic # SHOW_MAGIC
    /\ Len(loadLog) = LOAD_ATTEMPTS
    /\ \A i \in 1..Len(loadLog) : loadLog[i].ready

\* ---------------------------------------------------------- renderer claims
\* C17: whenever renderFrame() is entered with a non-OFF current effect whose
\* end time start + duration is <= currentShowTime, it sets the effect to OFF,
\* sets every pixel to black and transmits, also when stripIsOff was true.
C17_SafetyNetForcesOff ==
    [][(RenderCall /\ cur.type # CMD_OFF
                   /\ cur.start + cur.duration <= currentShowTime)
          => /\ cur'.type = CMD_OFF
             /\ AllBlack(pixels')
             /\ shown' = pixels'
             /\ txCount' = 1
             /\ stripIsOff'
             /\ ~frameDirty'
             /\ lastRenderedEffectType' = CMD_OFF]_vars

\* C17 witness: the safety net replaced a coloured effect whose end had
\* passed, and the black frame went out
C17_Witness ==
    /\ pc = "flush"
    /\ cur.type = CMD_OFF
    /\ cur.color # 0
    /\ cur.duration = 0
    /\ cur.start = currentShowTime
    /\ txCount = 1
    /\ AllBlack(shown)

\* C18: after an iteration that ran renderFrame() every pixel of the strip has
\* a value; when the selected event's effect byte is none of the defined
\* kinds (7, 8, 19..255) the strip is black and the black frame is the one
\* last transmitted.
C18_UndefinedEffectRendersBlack ==
    RanSchedule =>
        /\ Len(pixels) = numLeds
        /\ \A i \in 1..numLeds : Len(pixels[i]) = 4
        /\ (selectedIndex >= 0
              /\ showSchedule[selectedIndex + 1].effectType \in ({7, 8} \cup (19..255))) =>
              /\ AllBlack(pixels)
              /\ shown = pixels
              /\ ~frameDirty
              /\ stripIsOff

\* C18 witness: an undefined effect byte selected while the strip was lit, the
\* strip cleared and transmitted in that iteration
C18_Witness ==
    /\ RanSchedule
    /\ selectedIndex >= 0
    /\ cur.type = CMD_BEYOND
    /\ txCount > 0
    /\ AllBlack(shown)

\* C19 as claimed: the show never keeps the strip lit for more than
\* STRIP_TIMEOUT_MS without a newly selected event (the strip is forced OFF
\* when the timeout passes).
C19_AsClaimed == litFor <= STRIP_TIMEOUT_MS

\* C20: at the end of every loop iteration with the radio initialised
\* frameDirty is false and the frame last transmitted equals the pixel buffer.
C20_NothingLeftUntransmitted ==
    (pc = "loop" /\ iterBranch \in {"test", "complete", "show", "standby"}) =>
        /\ ~frameDirty
        /\ shown = pixels

\* C20 witness: an iteration whose effect changed the pixels and transmitted
\* them
C20_Witness ==
    /\ iterBranch = "show"
    /\ IsLit(pixels)
    /\ txCount = 1
    /\ shown = pixels

\* ------------------------------------------------- claims C21 .. C30
\* a step of loop() that returns to loop(), not one of button_isr()
LoopStep == pc = "loop" /\ pc' = "loop" /\ pressesPending' <= pressesPending

\* the step's iteration toggled test mode; it left test mode
Toggled == inTestMode' # inTestMode

LeftTestMode == inTestMode /\ ~inTestMode'

\* the step's iteration took a branch that transmits the cleared buffer
\* itself: standby, show complete, renderFrame() with the effect OFF
ForcedOff ==
    \/ iterBranch' \in {"standby", "complete"}
    \/ iterBranch' = "show" /\ cur'.type = CMD_OFF

\* the step's iteration called markDirty() or markAllOff() after the toggle
\* block: a test-animation step, a renderer of the switch, the default case
\* on a strip not yet off
MarkedDirty ==
    \/ /\ iterBranch' = "test"
       /\ animationStep' # (IF Toggled THEN 0 ELSE animationStep)
    \/ /\ iterBranch' = "show"
       /\ cur'.type \in KnownEffects
    \/ /\ iterBranch' = "show"
       /\ cur'.type \notin (KnownEffects \cup {CMD_OFF})
       /\ ~stripIsOff
       /\ ~LeftTestMode

\* C21 as claimed: a loop iteration that does not change the pixel buffer (a
\* steady OFF or standby state) performs no transmit.
C21_AsClaimed ==
    [][(LoopStep /\ radioInitialized /\ pixels' = pixels) => txCount' = 0]_vars

\* C21 amended: showIfDirty() transmits only a frame marked dirty in that
\* iteration (once for leaving test mode, once for a rendered effect or
\* animation step, changed pixel values or not); standby, show-complete and
\* the OFF branch of renderFrame() transmit the cleared buffer themselves in
\* every iteration; an iteration with neither performs no transmit and leaves
\* buffer and strip as they were.
C21_TransmitOnlyIfDirtyOrForcedOff ==
    [][(LoopStep /\ radioInitialized) =>
          /\ txCount' = (IF LeftTestMode THEN 1 ELSE 0)
                        + (IF ForcedOff \/ MarkedDirty THEN 1 ELSE 0)
          /\ (~LeftTestMode /\ ~ForcedOff /\ ~MarkedDirty) =>
                (pixels' = pixels /\ shown' = shown)
          /\ ~frameDirty']_vars

\* C21 witness: a test-mode iteration inside the animation's throttle, which
\* transmitted nothing and left the lit strip as it was
C21_Witness ==
    /\ pc = "loop"
    /\ iterBranch = "test"
    /\ txCount = 0
    /\ IsLit(shown)
    /\ ~frameDirty

\* C23: showSchedule[], showLength, showEndTime, myConfig and numLeds change
\* only in a step of the load in setup(); no loop iteration (packet receipt,
\* scheduling, rendering, test mode, show completion), no interrupt and no
\* entry into setup mode changes them.
C23_LoadedShowImmutable ==
    [][(showVars' # showVars) => (pc = "load" /\ pc' \in {"load", "configure"})]_vars

\* C23 witness: a loaded show that has been played to completion and is still
\* the one read from the file
C23_Witness ==
    /\ pc = "loop"
    /\ iterBranch = "complete"
    /\ showLength = 2
    /\ showSchedule = file.events
    /\ showEndTime > 0
    /\ myConfig = file.lut[propID]

C26_AsClaimed ==
    [][/\ (pc = "boot" /\ pc' = "load" /\ eeprom \in 1..224) =>
              (propID' = eeprom /\ eeprom' = eeprom)
       /\ (pc = "setupMode" /\ pc' = "setupMode" /\ lastIsPressed /\ ~lastIsPressed') =>
              tempPropID' = (IF tempPropID = 224 THEN 1 ELSE tempPropID + 1)]_vars

\* C22 as claimed: every test-mode toggle answers exactly one press accepted
\* by button_isr(): when loop() clears buttonPressFlag, one accepted press is
\* pending, and none is pending afterwards.
C22_AsClaimed ==
    [][Toggled => (pressesPending = 1 /\ pressesPending' = 0)]_vars

\* C27 as claimed: a loop iteration that finds an accepted press and the
\* button released toggles test mode.
C27_AsClaimed ==
    [][(LoopStep /\ buttonPressFlag /\ iterButton' = "up") => Toggled]_vars

\* C27 amended: with the radio initialised, a loop iteration toggles test
\* mode exactly when it finds an accepted press and the button released;
\* while inTestMode is true the iteration takes the test branch, leaves the
\* current effect and the scheduler's selection alone and shows the test
\* animation; the iteration that leaves test mode clears the strip and
\* transmits the black frame in addition to what its show branch transmits.
C27_ShortPressTogglesTestMode ==
    [][(LoopStep /\ radioInitialized) =>
          /\ Toggled <=> (buttonPressFlag /\ iterButton' = "up")
          /\ Toggled => (~buttonPressFlag' /\ pressesPending' = 0)
          /\ inTestMode' =>
                /\ iterBranch' = "test"
                /\ cur' = cur
                /\ lastRenderedEffectType' = lastRenderedEffectType
                /\ selectedIndex' = -1
                /\ MarkedDirty =>
                      /\ pixels' = TestFrame(numLeds, animationStep', isRGBW)
                      /\ shown' = pixels'
                /\ ~MarkedDirty => (pixels' = pixels /\ shown' = shown)
          /\ LeftTestMode =>
                /\ iterBranch' \in {"show", "complete", "standby"}
                /\ txCount' = 1 + (IF ForcedOff \/ cur'.type \in KnownEffects
                                   THEN 1 ELSE 0)
                /\ (iterBranch' # "show" \/ cur'.type \notin KnownEffects) =>
                      (~IsLit(shown') /\ stripIsOff')]_vars

\* C27 witness: the iteration that left test mode transmitted the black frame
\* and then the frame of the show's current event
C27_Witness ==
    /\ pc = "loop"
    /\ radioInitialized
    /\ ~inTestMode
    /\ ~buttonPressFlag
    /\ iterButton = "up"
    /\ prevComplete = FALSE
    /\ iterBranch = "show"
    /\ txCount = 2
    /\ IsLit(shown)

\* C25: after a successful load of a version-3 file by prop P, myConfig is
\* the 8 bytes at file offset 16 + (P-1)*8 (LED count little-endian at +0,
\* chipset at +2, colour order at +3, brightness cap at +4) and loaded event i
\* is the 48 bytes at file offset 16 + 224*8 + 48*i, whatever P is.
C25_TableAndEventOffsets ==
    showLoaded =>
        LET o == 16 + (propID - 1) * 8
            B(k) == FileByte(file, k)
        IN /\ o + 8 <= FileSize(file)
           /\ myConfig.ledCount = B(o) + 256 * B(o + 1)
           /\ myConfig.ledType = B(o + 2)
           /\ myConfig.colorOrder = B(o + 3)
           /\ myConfig.brightnessCap = B(o + 4)
           /\ numLeds = myConfig.ledCount
           /\ \A i \in 0..(showLength - 1) :
                 /\ 16 + 224 * 8 + 48 * (i + 1) <= FileSize(file)
                 /\ showSchedule[i + 1] =
                       DecodeShowEvent([k \in 1..48 |-> B(16 + 224 * 8 + 48 * i + k - 1)])

\* C25 witness: prop 4 loaded its 300-LED entry and two different events
C25_Witness ==
    /\ showLoaded
    /\ propID = 4
    /\ myConfig = PropConfig(300, LED_SK6812_RGBW, 5, 128)
    /\ showLength = 2
    /\ showSchedule = file.events
    /\ showSchedule[1] # showSchedule[2]

\* ----------------------------------------------------------- remote claims
\* C28: after an accepted press of Config/Stop, and until the next accepted
\* press of Play or of a cue button, isPlaying is false, masterTime is 0 and
\* every packet broadcast carries masterTime 0 and state 0.
C28_StopResetsAndHolds ==
    /\ iterAccepted = "stop" => stoppedByButton
    /\ stoppedByButton =>
          /\ ~isPlaying
          /\ masterTime = 0
          /\ sentPacket.sent => (sentPacket.masterTime = 0 /\ sentPacket.state = 0)

\* C28 witness: Stop was accepted in an iteration that read Play down as
\* well and broadcast a packet, after earlier packets
C28_Witness ==
    /\ iterAccepted = "stop"
    /\ lastButtonState[2] = "LOW"
    /\ sentPacket.sent
    /\ sentPacket.packetCounter > 0
    /\ sentPacket.state = 0

\* the cue times the remote's show.bin configures
ConfiguredCues ==
    IF cueFile.exists /\ cueFile.size >= 32 /\ cueFile.magic = 826627395
    THEN cueFile.times ELSE [i \in 1..4 |-> Uint32Mod - 1]

\* C29: in loop(), cueTimes[] is what the cue block of show.bin configures;
\* an accepted press of cue button i with a defined time leaves masterTime at
\* exactly cueTimes[i], isPlaying true and activeCue i, and a packet of that
\* iteration carries that time; an accepted press of a cue with an undefined
\* time leaves isPlaying and activeCue as they were and masterTime where the
\* iteration's own clock advance put it.
C29_CueJumpsToConfiguredTime ==
    [][remotePc = "loop" =>
          /\ cueTimes = ConfiguredCues
          /\ cueTimes' = cueTimes
          /\ \A i \in 1..4 :
                iterAccepted' = RemoteButtons[i + 2] =>
                   IF cueTimes[i] # Uint32Mod - 1
                   THEN /\ masterTime' = cueTimes[i]
                        /\ isPlaying'
                        /\ activeCue' = i
                        /\ sentPacket'.sent =>
                              (sentPacket'.masterTime = cueTimes[i] /\ sentPacket'.state = 1)
                   ELSE /\ isPlaying' = isPlaying
                        /\ activeCue' = activeCue
                        /\ masterTime' \in
                              { (masterTime + d) % Uint32Mod :
                                   d \in (IF isPlaying THEN 0..MaxDelta ELSE {0}) }]_vars

\* C29 witness: cue C, configured at 5, was pressed while cue A was playing
C29_Witness ==
    /\ iterAccepted = "cueC"
    /\ lastButtonState[3] = "LOW"
    /\ masterTime = 5
    /\ isPlaying
    /\ activeCue = 3
    /\ sentPacket.sent
    /\ sentPacket.masterTime = 5

\* the cue after a in cyclic order among the defined ones (the first defined
\* cue when no cue is active)
NextDefinedCue(a, defined) ==
    LET dist(i) == IF a = 0 THEN i ELSE ((i - a - 1) % 4) + 1
    IN CHOOSE i \in defined : \A j \in defined : dist(i) <= dist(j)

\* C30 as claimed: with a cue configured, an accepted press of Cycle/Play
\* leaves the remote playing from a defined cue, and when it was already
\* playing, from the next defined cue in cyclic order, at that cue's time.
C30_AsClaimed ==
    [][(remotePc = "loop" /\ iterAccepted' = "play") =>
          LET defined == { i \in 1..4 : cueTimes[i] # Uint32Mod - 1 } IN
          defined # {} =>
             /\ isPlaying'
             /\ activeCue' \in defined
             /\ isPlaying =>
                   /\ activeCue' = NextDefinedCue(activeCue, defined)
                   /\ masterTime' = cueTimes[activeCue']]_vars


\* ------------------------------------------------- claims C31 .. C40
\* C31: makeColor(r, g, b) on an SK6812 RGBW strip returns white = the least
\* of r, g, b and the channels r - w, g - w, b - w: each within 0..255, one
\* of them 0, and each plus w the channel given; on a strip of any other
\* type it returns r, g, b as given and no white.
C31_MakeColorSplitsWhite ==
    call.fn = "makeColor" =>
        LET in == << call.r, call.g, call.b >>
            out == call.out
        IN IF myConfig.ledType = LED_SK6812_RGBW
           THEN /\ \E k \in 1..3 : out[4] = in[k]
                /\ \A k \in 1..3 : out[4] <= in[k]
                /\ \A k \in 1..4 : out[k] \in 0..255
                /\ \E k \in 1..3 : out[k] = 0
                /\ \A k \in 1..3 : out[k] + out[4] = in[k]
           ELSE out = << call.r, call.g, call.b, 0 >>

C31_Witness ==
    /\ call.fn = "makeColor"
    /\ myConfig.ledType = LED_SK6812_RGBW
    /\ << call.r, call.g, call.b >> = << 80, 128, 255 >>
    /\ call.out = << 0, 48, 175, 80 >>


\* floor(localTime * 65536 / period) mod 65536 over the integers: the whole
\* periods of localTime contribute multiples of 65536, so it is the same
\* quotient for localTime mod period, taken in two steps of 8 bits
LinearHue(localTime, period) ==
    LET rest == localTime % period
        q == (rest * 256) \div period
        r == (rest * 256) % period
    IN q * 256 + (r * 256) \div period

\* C32 (as claimed): RAINBOW_CHASE takes the period 2000 ms for speed byte 0
\* and 2000 / (speed / 50) ms otherwise, never 0, and at every local time
\* its hue offset is floor(localTime * 65536 / period) mod 65536.
C32_AsClaimed ==
    call.fn = "rainbowChase" =>
        /\ call.period = (IF cur.speed = 0 THEN 2000 ELSE 100000 \div cur.speed)
        /\ call.period # 0
        /\ call.hueOffset = LinearHue(call.localTime, call.period)


\* the values of rand() % 10 on which GLITCH shows the primary colour, and
\* their share of the ten values in percent
PrimaryRolls == { v \in 0..9 : ~GlitchPicksSecond(v) }

PrimaryShare == (100 * Cardinality(PrimaryRolls)) \div 10

\* the frame of a GLITCH call is one of the two colours over the whole
\* strip, the primary one exactly on the primary rolls
GlitchFillsOneColour ==
    pixels = Fill(numLeds, IF (call.roll % 10) \in PrimaryRolls
                           THEN MakeColorFromPacked(isRGBW, cur.color)
                           ELSE MakeColorFromPacked(isRGBW, cur.color2))

\* a GLITCH call in the 50 ms tick of the GLITCH call before it renders the
\* frame that call rendered
GlitchSameWithinTick ==
    (/\ call.fn = "glitch"
     /\ call'.fn = "glitch"
     /\ call'.localTime \div 50 = call.localTime \div 50) => pixels' = pixels

\* C33 (as claimed): GLITCH fills the strip with one colour per 50 ms tick,
\* the same within a tick however often it is rendered, and picks the
\* primary colour on 70% and the secondary on 30% of the roll values.
C33_AsClaimed ==
    /\ [](call.fn = "glitch" => (GlitchFillsOneColour /\ PrimaryShare = 70))
    /\ [][GlitchSameWithinTick]_vars

\* C33 (amended): GLITCH fills the strip with one colour per 50 ms tick, the
\* same within a tick however often it is rendered, and picks the primary
\* colour on 80% and the secondary on 20% of the roll values.
C33_GlitchPerTickEightyTwenty ==
    /\ [](call.fn = "glitch" => (GlitchFillsOneColour /\ PrimaryShare = 80))
    /\ [][GlitchSameWithinTick]_vars

C33_Witness ==
    /\ call.fn = "glitch"
    /\ call.localTime = 399
    /\ call.roll % 10 = 8
    /\ pixels = Fill(numLeds, MakeColorFromPacked(isRGBW, cur.color2))


\* the pixels of a frame that are not black
LitPixels(frame) == { i \in 1..Len(frame) : frame[i] # BLACK }

\* C34 (as claimed): with speed byte 0 and width byte 0, CHASE and METEOR
\* render the frame of the fixed-parameter renderer for the same local time,
\* colour and strip length, and light the same set of pixels.
C34_AsClaimed ==
    (cur.speed = 0 /\ cur.width = 0) =>
        LET c == MakeColorFromPacked(isRGBW, cur.color)
            legacy == IF call.fn = "chase"
                      THEN LegacyRenderChase(numLeds, call.localTime, c)
                      ELSE LegacyRenderMeteor(numLeds, call.localTime, c)
        IN call.fn \in {"chase", "meteor"} =>
              /\ pixels = legacy
              /\ LitPixels(pixels) = LitPixels(legacy)


\* a call of loadShowFromFlash() that returned false
FailedLoad ==
    /\ pc = "load"
    /\ Len(loadLog') = Len(loadLog) + 1
    /\ ~loadLog'[Len(loadLog')].ok

\* C35: a load attempt that fails leaves myConfig, numLeds, showLength,
\* showEndTime and showSchedule as they were; when every attempt has failed
\* the configuration is the built-in one (164 LEDs, WS2812B, GRB, brightness
\* 255), showLength is 0, and setup() configures the strip from it.
C35_FailedLoadKeepsDefaults ==
    /\ [][FailedLoad => UNCHANGED << myConfig, numLeds, showLength, showEndTime,
                                     showSchedule >>]_vars
    /\ []((pc \in {"configure", "loop"} /\ ~showLoaded) =>
             /\ myConfig = [ledCount |-> 164, ledType |-> 0, colorOrder |-> 0,
                            brightnessCap |-> 255]
             /\ numLeds = 164
             /\ showLength = 0
             /\ showEndTime = 0
             /\ showSchedule = <<>>
             /\ pc = "loop" => (Len(pixels) = 164 /\ ~isRGBW))

\* C35 witness: three failed attempts on a file whose version is not 3, the
\* strip then configured
C35_Witness ==
    /\ pc = "loop"
    /\ ~showLoaded
    /\ Len(loadLog) = LOAD_ATTEMPTS
    /\ file.exists /\ file.version # SHOW_VERSION
    /\ Len(pixels) = 164


\* C36: when loop() has run checkSchedule() and renderFrame(), the effect
\* rendered is OFF or the show-time lies before currentEffectStart +
\* currentEffectDuration (modulo 2^32) and not before currentEffectStart: the
\* current-effect globals are still those of the event checkSchedule()
\* selected, so the end-time safety net of renderFrame() has not fired.
C36_SafetyNetNeverFiresInLoop ==
    RanSchedule =>
        IF selectedIndex >= 0
        THEN LET e == showSchedule[selectedIndex + 1] IN
             /\ cur.type = e.effectType
             /\ cur.start = e.startTime
             /\ cur.duration = e.duration
             /\ \/ cur.type = CMD_OFF
                \/ currentShowTime < (cur.start + cur.duration) % Uint32Mod
             /\ currentShowTime >= cur.start
             /\ lastRenderedEffectType = e.effectType
        ELSE cur.type = CMD_OFF

\* C36 witness: the last millisecond of a selected event, rendered lit
C36_Witness ==
    /\ RanSchedule
    /\ selectedIndex >= 0
    /\ cur.type = CMD_SOLID_COLOR
    /\ currentShowTime + 1 = cur.start + cur.duration
    /\ IsLit(shown)


\* the loaded events (1-based) whose window holds show-time t and whose mask
\* has this prop's bit
Covering(t) ==
    { i \in 1..showLength :
         WindowHolds(showSchedule[i], t) /\ HasPropBit(showSchedule[i], propID) }

\* C37: show completion is not latched. When the iteration before took the
\* show-complete branch and this one, outside test mode, receives a playing
\* packet whose masterTime is at most showEndTime, it runs checkSchedule()
\* and renderFrame() at that time: the first event covering it is selected
\* and, if it is a solid colour, lit; with no such event the strip is black.
C37_CompletionNotLatched ==
    [][(/\ LoopStep
        /\ radioInitialized
        /\ iterBranch = "complete"
        /\ ~inTestMode'
        /\ iterPacket'.received
        /\ iterPacket'.state = 1
        /\ iterPacket'.masterTime <= showEndTime)
       => /\ iterBranch' = "show"
          /\ currentShowTime' = iterPacket'.masterTime
          /\ LET covering == Covering(iterPacket'.masterTime) IN
             IF covering = {}
             THEN selectedIndex' = -1 /\ AllBlack(shown')
             ELSE /\ selectedIndex' + 1 = Least(covering)
                  /\ showSchedule[Least(covering)].effectType = CMD_SOLID_COLOR
                        => IsLit(shown')]_vars

\* C37 witness: an event lit again by a packet that jumped back after the
\* show had completed
C37_Witness ==
    /\ prevComplete
    /\ iterBranch = "show"
    /\ iterPacket.received
    /\ currentShowTime <= showEndTime
    /\ selectedIndex >= 0
    /\ IsLit(shown)


\* C38: standby blackout. At the end of every loop() iteration with the
\* radio initialised, outside test mode and with isShowPlaying false, the
\* standby branch has run: every pixel is black, that frame has been
\* transmitted in this iteration and the strip is flagged off.
C38_StandbyBlackout ==
    [][(LoopStep /\ radioInitialized /\ ~inTestMode' /\ ~isShowPlaying')
       => /\ iterBranch' = "standby"
          /\ AllBlack(pixels')
          /\ shown' = pixels'
          /\ txCount' >= 1
          /\ stripIsOff'
          /\ ~frameDirty']_vars

\* C38 witness: a pause packet in the middle of the event that is still the
\* current effect
C38_Witness ==
    /\ iterBranch = "standby"
    /\ iterPacket.received
    /\ iterPacket.state # 1
    /\ cur.type = CMD_SOLID_COLOR
    /\ currentShowTime > cur.start
    /\ currentShowTime < cur.start + cur.duration
    /\ AllBlack(shown)
    /\ txCount >= 1

\* C39: between loop() iterations, stripIsOff implies that every pixel of
\* the buffer is black and that the frame last transmitted is black; an
\* iteration that rendered an effect without a case in renderFrame()'s
\* switch leaves the strip off and black.
C39_StripIsOffMeansBlack ==
    pc = "loop" =>
        /\ stripIsOff => (AllBlack(pixels) /\ AllBlack(shown))
        /\ (iterBranch = "show" /\ cur.type \notin (KnownEffects \cup {CMD_OFF}))
              => (stripIsOff /\ AllBlack(shown))

\* C39 witness: the iteration in which the default case cleared a lit strip
\* and loop() transmitted the black frame
C39_Witness ==
    /\ pc = "loop"
    /\ iterBranch = "show"
    /\ cur.type = CMD_BEYOND
    /\ stripIsOff
    /\ txCount = 1
    /\ AllBlack(shown)


\* C40: propID lies in 1..TOTAL_PROPS in every state, whatever byte the
\* EEPROM held at boot and whatever presses setup mode has seen: boot
\* replaces a stored byte outside the range by 1 and saves it, and from then
\* on the EEPROM holds propID. So the mask bucket (propID - 1) / 32 is below
\* MASK_ARRAY_SIZE and the 8 bytes at 16 + (propID - 1) * 8 lie inside the
\* table of 224 entries.
C40_PropIDInRange ==
    /\ [](/\ propID \in 1..TOTAL_PROPS
          /\ pc # "boot" => eeprom = propID
          /\ pc = "setupMode" => tempPropID \in 1..TOTAL_PROPS
          /\ (propID - 1) \div 32 < MASK_ARRAY_SIZE
          /\ 16 + (propID - 1) * 8 + 8 <= 16 + 224 * 8)
    /\ [][(pc = "boot" /\ pc' = "load") =>
             /\ propID' = (IF eeprom \in 1..TOTAL_PROPS THEN eeprom ELSE 1)
             /\ eeprom' = propID']_vars

\* C40 witness: setup mode entered as the last prop, one press released: the
\* identity on offer has wrapped to 1
C40_Witness ==
    /\ pc = "setupMode"
    /\ propID = TOTAL_PROPS
    /\ tempPropID = 1

====
